---- MODULE Spec2Model ----
(***************************************************************************)
(* Source aggregation and cache layer of costwise: the in-process          *)
(* fixed-window rate limiter (lib/api/rate-limit.ts), the api_cache store  *)
(* with its two client libraries (lib/cache.ts and lib/api/cache.ts), the  *)
(* source fetchers and the route handlers that compose them.               *)
(***************************************************************************)
EXTENDS Integers, Sequences, FiniteSets, TLC

VARIABLES
  now,             \* Date.now() of the server process, in milliseconds
  rateLimitStore,  \* Map<string, RateLimitEntry> of rate-limit.ts
  rlConfig,        \* the RateLimitConfig the callers pass
  rlResult,        \* the last RateLimitResult, with its identifier and call time
  gWinOpen,        \* history: per identifier, time of the call that opened the current window
  gCalls,          \* history: per identifier, calls made in the current window (saturating)
  gWindows,        \* history: per identifier, number of windows opened (saturating)
  gRejected,       \* history: per identifier, whether a call has been rejected
  cacheKey,        \* the (source, location_key) the requests of this behaviour are about
  dbNow,           \* the clock the cache libraries and the store read, in days
  api_cache,       \* the rows of table api_cache
  storeUp,         \* whether the store answers (FALSE: every query returns an error)
  pendingWrites,   \* upserts issued by withCache without await, not yet applied
  lastOp,          \* the last cache operation or fetch: its arguments, what the resolver and
                   \* the upstream answer when asked (found, fetched), what it returned,
                   \* and the history entry of its key when it read the store (seen)
  gLastSet,        \* history: per (source, key), the last successful set since an invalidate
  lastFetch,       \* the last run of a fetcher's upstream call: the response and the outcome
  lastEnergy,      \* the last getEnergyPricesByState call on a cache miss: inputs and result
  endpoint,        \* the source endpoint the requests of this behaviour go to
  response,        \* the last request and the response the handler of the endpoint gave
  zip_to_cbsa,     \* the rows of the crosswalk table zip_to_cbsa
  lastMetro,       \* the last crosswalk lookup: its arguments and what it returned
  rppBatch,        \* the price parities parsed from a BEA response, in insertion order
  ranked,          \* the batch getRPPAllStates returned for rppBatch
  requests,        \* per concurrent request for cacheKey: where it is and what it got
  limiter          \* history of the limiter: the same calls replayed on comparison stores

rlVars == <<now, rateLimitStore, rlConfig, rlResult, gWinOpen, gCalls, gWindows, gRejected>>

cacheVars == <<cacheKey, dbNow, api_cache, storeUp, pendingWrites, lastOp, gLastSet>>

fetchVars == <<lastFetch, lastEnergy>>

routeVars == <<endpoint, response>>

metroVars == <<zip_to_cbsa, lastMetro>>

rankVars == <<rppBatch, ranked>>

\* the variables of the lookups and pure computations beside the request path
concVars == <<requests>>

histVars == <<limiter>>

auxVars == <<metroVars, rankVars, concVars, histVars>>

vars == <<rlVars, cacheVars, fetchVars, routeVars, auxVars>>

----------------------------------------------------------------------------
(* Bounds of the model *)

MaxNow == 4000
TickMs == 500
MaxRequestsBound == 2

(* An optional number that is absent (retryAfter?: number) *)
Undefined == -1

WindowChoices == {1000, 1500}

Identifiers == {"eia:10.0.0.1", "bls:10.0.0.1"}

Configs == {[windowMs |-> w, maxRequests |-> n] : w \in WindowChoices, n \in 1..MaxRequestsBound}

MaxDay == 37
MaxPending == 1

HoursPerDay == 24
SecondsPerDay == 86400

\* null, a thrown exception, an omitted optional argument
Null == "null"

Thrown == "thrown"

NoneArg == "undefined"

Payloads == {"P1", "P2"}

\* enum APISource
APISource == {"hud", "bea", "bls", "eia", "census"}

\* the rows the model follows: one rent key (lib/cache.ts) and one key of each source
\* whose fetchers are built on withCache
CacheKeys == {[source |-> "hud", location_key |-> "zip:90210"],
              [source |-> "eia", location_key |-> "eia:energy-state:CA"],
              [source |-> "bea", location_key |-> "bea:rpp-states"],
              [source |-> "bls", location_key |-> "bls:cpi-region"]}

Sources == {k.source : k \in CacheKeys}

\* CACHE_TTL_HOURS of lib/cache.ts
CACHE_TTL_HOURS == [s \in APISource |-> IF s \in {"bls", "eia"} THEN 168 ELSE 720]

\* the ttlSeconds the fetchers pass to withCache: 86400 * 30 (bea), 86400 * 7 (bls, eia)
TtlSecondsWeek(source) == SecondsPerDay * 7

TtlSeconds(source) == IF source = "bea" THEN SecondsPerDay * 30 ELSE SecondsPerDay * 7

\* the CacheConfig values the fetchers of a source pass to withCache
CacheConfigOf(source) == [source |-> source, ttlSeconds |-> TtlSeconds(source)]

\* the time steps of the store clock: each configured lifetime
DaySteps == {CACHE_TTL_HOURS[s] \div HoursPerDay : s \in Sources}

NoSet == [set |-> FALSE, data |-> Null, expires_at |-> 0, prev |-> Null]

NoOp == [op |-> "none", source |-> "none", key |-> "none", data |-> Null, ok |-> TRUE,
         hit |-> FALSE, cached |-> FALSE, upstream |-> FALSE, found |-> TRUE,
         fetched |-> Null, storeOk |-> TRUE, count |-> 0, seen |-> NoSet]

\* the values the variables of each component have while another component is checked
RLIdle ==
  /\ now = 0
  /\ rateLimitStore = <<>>
  /\ rlConfig = [windowMs |-> 1000, maxRequests |-> 1]
  /\ rlResult = [identifier |-> "none", at |-> 0, allowed |-> TRUE, remaining |-> 0,
                 resetTime |-> 0, retryAfter |-> Undefined]
  /\ gWinOpen = [i \in Identifiers |-> Undefined]
  /\ gCalls = [i \in Identifiers |-> 0]
  /\ gWindows = [i \in Identifiers |-> 0]
  /\ gRejected = [i \in Identifiers |-> FALSE]

CacheIdle ==
  /\ cacheKey = [source |-> "hud", location_key |-> "zip:90210"]
  /\ dbNow = 0
  /\ api_cache = {}
  /\ storeUp = TRUE
  /\ pendingWrites = {}
  /\ lastOp = NoOp
  /\ gLastSet = [k \in CacheKeys |-> NoSet]

\* the kinds of answer an upstream gives to one call: a 2xx response with rows, a 2xx
\* response without rows, a non-2xx response, a 2xx response whose body is not JSON, and
\* no answer at all
RespKinds == {"ok", "empty", "non2xx", "unparseable", "timeout"}

\* the upstream calls of the fetchers: the three EIA series, the BEA list and single
\* queries, the BLS region and time-series queries, the HUD rent query
Fetchers == {"electricity", "naturalGas", "gasoline", "rppList", "rppOne",
             "cpiRegion", "cpiSeries", "fmr"}

\* prices an upstream row may carry
Prices == {0, 12}

LowerLetters == <<"a", "b", "c", "d", "e", "f", "g", "h", "i", "j", "k", "l", "m",
                  "n", "o", "p", "q", "r", "s", "t", "u", "v", "w", "x", "y", "z">>

UpperLetters == <<"A", "B", "C", "D", "E", "F", "G", "H", "I", "J", "K", "L", "M",
                  "N", "O", "P", "Q", "R", "S", "T", "U", "V", "W", "X", "Y", "Z">>

Digits == {"0", "1", "2", "3", "4", "5", "6", "7", "8", "9"}

\* the state the upstream rows are about, and the state parameters of the requests
DataState == <<"C", "A">>

StateCodes == {<<"C", "A">>, <<"c", "a">>, <<"T", "X">>, <<"C", "4">>, <<"C", "A", "L">>, <<>>}

\* a settled or pending promise: status, the error it rejected with, the kind of value it
\* fulfilled with and, for an EIA series, the price of DataState in the record
Pending == [status |-> "pending", error |-> "none", value |-> "none", price |-> Undefined]

Rejected(error) == [status |-> "rejected", error |-> error, value |-> "none", price |-> Undefined]

Fulfilled(value, price) == [status |-> "fulfilled", error |-> "none", value |-> value, price |-> price]

NoFetch == [op |-> "none", fetcher |-> "none", resp |-> "none", outcome |-> Pending]

NoEnergy == [op |-> "none", stateCode |-> <<>>, keyOk |-> TRUE,
             electricity |-> [resp |-> "none", price |-> Undefined],
             naturalGas |-> [resp |-> "none", price |-> Undefined],
             gasoline |-> [resp |-> "none", price |-> Undefined],
             status |-> "pending", error |-> "none", isNull |-> FALSE,
             electricityPrice |-> Undefined, naturalGasPrice |-> Undefined,
             gasolinePrice |-> Undefined]

FetchIdle ==
  /\ lastFetch = NoFetch
  /\ lastEnergy = NoEnergy

\* the source endpoints: /api/eia, /api/bls, /api/bea, /api/hud
Endpoints == {"energy", "priceIndex", "priceParity", "rent", "search"}

NoResponse == [endpoint |-> "none", status |-> 0, success |-> FALSE, code |-> "none",
               cached |-> FALSE, data |-> "none", trace |-> <<>>, retryAfter |-> FALSE,
               zips |-> <<>>, items |-> <<>>, errors |-> <<>>,
               message |-> "none", caught |-> "none", keyOk |-> TRUE]

RouteIdle ==
  /\ endpoint = "energy"
  /\ response = NoResponse

\* the metro areas of the crosswalk rows: cbsa_code and cbsa_name ("City Name, ST")
Metros == {[cbsa_code |-> "31080", cbsa_name |-> <<"L", "A", ",", " ", "C", "A">>],
           [cbsa_code |-> "41740", cbsa_name |-> <<"S", "D", ",", " ", "C", "A">>],
           [cbsa_code |-> "40140", cbsa_name |-> <<"R", "S", ",", " ", "C", "A">>],
           [cbsa_code |-> "35620", cbsa_name |-> <<"N", "Y", ",", " ", "N", "Y">>]}

\* residential_ratio in tenths
Ratios == {3, 7}

MaxFill == 6

\* the ZIP code the lookups are about, a ZIP code without rows, and the ZIP code of the
\* i-th further row of a metro area
AskedZip == <<"9", "0", "2", "1", "0">>

UnmappedZip == <<"0", "0", "0", "0", "0">>

DigitSeq == <<"0", "1", "2", "3", "4", "5", "6", "7", "8", "9">>

ZipPrefix(m) ==
  CASE m.cbsa_code = "31080" -> <<"9", "0", "0">>
    [] m.cbsa_code = "41740" -> <<"9", "2", "1">>
    [] m.cbsa_code = "40140" -> <<"9", "2", "5">>
    [] OTHER -> <<"1", "0", "0">>

OtherZip(m, i) == ZipPrefix(m) \o <<"0", DigitSeq[i + 1]>>

CrosswalkRow(zip, m, ratio) ==
  [zip_code |-> zip, cbsa_code |-> m.cbsa_code, cbsa_name |-> m.cbsa_name,
   residential_ratio |-> ratio]

\* the ratio of the further rows of a metro area
FillRatio(m) ==
  CASE m.cbsa_code = "41740" -> 9
    [] m.cbsa_code = "40140" -> 8
    [] OTHER -> 10

\* a crosswalk table: the rows of AskedZip (asked[m]: its ratio in metro m, 0 for no row)
\* and, per metro, fill[m] rows of other ZIP codes that lie mostly in it
CrosswalkTable(asked, fill) ==
  {CrosswalkRow(AskedZip, m, asked[m]) : m \in {x \in Metros : asked[x] # 0}}
  \cup UNION {{CrosswalkRow(OtherZip(m, i), m, FillRatio(m)) : i \in 1..fill[m]} : m \in Metros}

NoMetro == [op |-> "none", zipCode |-> <<>>, dbError |-> FALSE, found |-> FALSE,
            cbsaCode |-> "none", cbsaName |-> <<>>, cityName |-> <<>>, stateCode |-> <<>>,
            residentialRatio |-> 0, isSplitZip |-> FALSE, limit |-> 0, nearby |-> <<>>]

MetroIdle ==
  /\ zip_to_cbsa = {}
  /\ lastMetro = NoMetro

NoBatch == [op |-> "none", results |-> <<>>]

RankIdle ==
  /\ rppBatch = <<>>
  /\ ranked = NoBatch

\* the number of requests for one key that are in flight together
NumRequests == 2

Requests == 1..NumRequests

\* a request that has not read the cache yet
NoRequest == [pc |-> "start", data |-> "null", cached |-> FALSE, resolver |-> 0,
              upstream |-> 0, row |-> {}, wrote |-> FALSE]

ConcIdle == requests = [r \in Requests |-> NoRequest]

\* the callers of checkRateLimit that are followed: <<source prefix, client id>>
Callers == {<<"eia", "10.0.0.1">>, <<"bls", "10.0.0.1">>}

NoOutcome == [allowed |-> TRUE, remaining |-> 0, resetTime |-> 0, retryAfter |-> 0 - 1]

NoLimiter == [last |-> "none", before |-> <<>>,
              ref |-> <<>>, refResult |-> NoOutcome,
              unswept |-> <<>>, unsweptResult |-> NoOutcome,
              solo |-> [c \in Callers |-> <<>>], soloResult |-> NoOutcome,
              allowedAt |-> [c \in Callers |-> <<>>]]

HistIdle == limiter = NoLimiter

----------------------------------------------------------------------------
(* lib/api/rate-limit.ts *)

\* Math.ceil(a / b) for an integer a and a positive integer b
MathCeilDiv(a, b) == 0 - ((0 - a) \div b)

\* Map.set / Map.delete on a function whose domain is the set of stored keys
MapSet(m, k, v) == [i \in (DOMAIN m) \cup {k} |-> IF i = k THEN v ELSE m[i]]

MapDelete(m, ks) == [i \in (DOMAIN m) \ ks |-> m[i]]

WindowElapsedLe(entry, t) == entry.resetTime <= t

\* entry.resetTime < now
WindowElapsed(entry, t) == entry.resetTime < t

LimitExceededGt(entry, config) == entry.count > config.maxRequests

\* entry.count >= config.maxRequests
LimitExceeded(entry, config) == entry.count >= config.maxRequests

\* Math.ceil((entry.resetTime - now) / 1000)
RetryAfter(entry, t) == MathCeilDiv(entry.resetTime - t, 1000)

\* checkRateLimit(identifier, config) at Date.now() = t: the new store and the result
checkRateLimit(store, identifier, config, t) ==
  IF identifier \notin DOMAIN store \/ WindowElapsed(store[identifier], t)
  THEN [store  |-> MapSet(store, identifier,
                          [count |-> 1, resetTime |-> t + config.windowMs]),
        result |-> [allowed |-> TRUE,
                    remaining |-> config.maxRequests - 1,
                    resetTime |-> t + config.windowMs,
                    retryAfter |-> Undefined]]
  ELSE IF LimitExceeded(store[identifier], config)
  THEN [store  |-> store,
        result |-> [allowed |-> FALSE,
                    remaining |-> 0,
                    resetTime |-> store[identifier].resetTime,
                    retryAfter |-> RetryAfter(store[identifier], t)]]
  ELSE [store  |-> MapSet(store, identifier,
                          [count |-> store[identifier].count + 1,
                           resetTime |-> store[identifier].resetTime]),
        result |-> [allowed |-> TRUE,
                    remaining |-> config.maxRequests - (store[identifier].count + 1),
                    resetTime |-> store[identifier].resetTime,
                    retryAfter |-> Undefined]]

cleanupRateLimitLe(store, t) ==
  MapDelete(store, {k \in DOMAIN store : store[k].resetTime <= t})

\* the setInterval callback: delete every entry with entry.resetTime < now
cleanupRateLimit(store, t) ==
  MapDelete(store, {k \in DOMAIN store : store[k].resetTime < t})

\* createRateLimitHeaders(result): is the Retry-After header set
HasRetryAfterHeader(result) ==
  (~result.allowed) /\ result.retryAfter # Undefined /\ result.retryAfter # 0

NoResult == [identifier |-> "none", at |-> 0, allowed |-> TRUE, remaining |-> 0,
             resetTime |-> 0, retryAfter |-> Undefined]

RLInit ==
  /\ now = 0
  /\ rateLimitStore = <<>>
  /\ rlConfig \in Configs
  /\ rlResult = NoResult
  /\ gWinOpen = [i \in Identifiers |-> Undefined]
  /\ gCalls = [i \in Identifiers |-> 0]
  /\ gWindows = [i \in Identifiers |-> 0]
  /\ gRejected = [i \in Identifiers |-> FALSE]
  /\ CacheIdle
  /\ FetchIdle
  /\ RouteIdle
  /\ MetroIdle
  /\ RankIdle
  /\ ConcIdle
  /\ HistIdle

\* time passes in the server process
RLTick ==
  /\ now + TickMs <= MaxNow
  /\ now' = now + TickMs
  /\ UNCHANGED <<rateLimitStore, rlConfig, rlResult, gWinOpen, gCalls, gWindows, gRejected>>
  /\ UNCHANGED <<cacheVars, fetchVars, routeVars, auxVars>>

\* a route handler calls checkRateLimit(identifier, config)
RLCheck(identifier) ==
  LET r == checkRateLimit(rateLimitStore, identifier, rlConfig, now)
      fresh == gWinOpen[identifier] = Undefined
               \/ now > gWinOpen[identifier] + rlConfig.windowMs
  IN /\ rateLimitStore' = r.store
     /\ rlResult' = [identifier |-> identifier, at |-> now,
                     allowed |-> r.result.allowed,
                     remaining |-> r.result.remaining,
                     resetTime |-> r.result.resetTime,
                     retryAfter |-> r.result.retryAfter]
     /\ gWinOpen' = [gWinOpen EXCEPT ![identifier] = IF fresh THEN now ELSE @]
     /\ gCalls' = [gCalls EXCEPT ![identifier] =
                     IF fresh THEN 1
                     ELSE IF @ > rlConfig.maxRequests THEN @ ELSE @ + 1]
     /\ gWindows' = [gWindows EXCEPT ![identifier] =
                     IF fresh /\ @ < 2 THEN @ + 1 ELSE @]
     /\ gRejected' = [gRejected EXCEPT ![identifier] = @ \/ ~r.result.allowed]
     /\ UNCHANGED <<now, rlConfig>>
     /\ UNCHANGED <<cacheVars, fetchVars, routeVars, auxVars>>

\* the periodic cleanup timer fires
RLSweep ==
  /\ rateLimitStore' = cleanupRateLimit(rateLimitStore, now)
  /\ rlResult' = NoResult
  /\ UNCHANGED <<now, rlConfig, gWinOpen, gCalls, gWindows, gRejected>>
  /\ UNCHANGED <<cacheVars, fetchVars, routeVars, auxVars>>

RLNext ==
  \/ RLTick
  \/ \E identifier \in Identifiers : RLCheck(identifier)
  \/ RLSweep

SpecRL == RLInit /\ [][RLNext]_vars

----------------------------------------------------------------------------
(* The limiter with its history: every call is replayed on comparison       *)
(* stores (limiter), so that its results can be compared with those of the  *)
(* limiter that counts first, of a store that is never swept, and of a      *)
(* store that sees one caller only.                                         *)

MaxRejected == 2

IdentifierOfClient(prefix, clientId) == clientId

\* `eia:${clientId}`, `bls:${clientId}` in the route handlers
IdentifierOf(prefix, clientId) ==
  CASE prefix = "eia" /\ clientId = "10.0.0.1" -> "eia:10.0.0.1"
    [] prefix = "bls" /\ clientId = "10.0.0.1" -> "bls:10.0.0.1"
    [] OTHER -> clientId

\* the limiter that counts first: a fresh bucket when there is none or its
\* window has elapsed, else the count goes up by one and the call is rejected
\* when the count is above maxRequests
CountFirstLimiter(store, identifier, config, t) ==
  IF identifier \notin DOMAIN store \/ store[identifier].resetTime < t
  THEN [store  |-> MapSet(store, identifier,
                          [count |-> 1, resetTime |-> t + config.windowMs]),
        result |-> [allowed |-> TRUE,
                    remaining |-> config.maxRequests - 1,
                    resetTime |-> t + config.windowMs,
                    retryAfter |-> Undefined]]
  ELSE LET count == store[identifier].count + 1
           resetTime == store[identifier].resetTime
           bumped == MapSet(store, identifier,
                            [count |-> count, resetTime |-> resetTime])
       IN IF count > config.maxRequests
          THEN [store  |-> bumped,
                result |-> [allowed |-> FALSE,
                            remaining |-> 0,
                            resetTime |-> resetTime,
                            retryAfter |-> MathCeilDiv(resetTime - t, 1000)]]
          ELSE [store  |-> bumped,
                result |-> [allowed |-> TRUE,
                            remaining |-> config.maxRequests - count,
                            resetTime |-> resetTime,
                            retryAfter |-> Undefined]]

\* the times of a sequence that are later than t
RECURSIVE LaterThan(_, _)
LaterThan(times, t) ==
  IF times = <<>> THEN <<>>
  ELSE IF Head(times) > t THEN times
  ELSE LaterThan(Tail(times), t)

BucketInit ==
  /\ now = 0
  /\ rateLimitStore = <<>>
  /\ rlConfig \in Configs
  /\ rlResult = NoResult
  /\ gWinOpen = [i \in Identifiers |-> Undefined]
  /\ gCalls = [i \in Identifiers |-> 0]
  /\ gWindows = [i \in Identifiers |-> 0]
  /\ gRejected = [i \in Identifiers |-> FALSE]
  /\ limiter = NoLimiter
  /\ CacheIdle
  /\ FetchIdle
  /\ RouteIdle
  /\ MetroIdle
  /\ RankIdle
  /\ ConcIdle

\* time passes in the server process
BucketTick ==
  /\ now + TickMs <= MaxNow
  /\ now' = now + TickMs
  /\ rlResult' = NoResult
  /\ limiter' = [limiter EXCEPT
                   !.last = "tick", !.before = <<>>,
                   !.refResult = NoOutcome, !.unsweptResult = NoOutcome,
                   !.soloResult = NoOutcome,
                   !.allowedAt = [c \in Callers |->
                                   LaterThan(limiter.allowedAt[c],
                                             now' - rlConfig.windowMs)]]
  /\ UNCHANGED <<rateLimitStore, rlConfig, gWinOpen, gCalls, gWindows, gRejected>>
  /\ UNCHANGED <<cacheVars, fetchVars, routeVars, metroVars, rankVars, concVars>>

\* a route handler of one source calls checkRateLimit for one client
BucketCheck(prefix, clientId) ==
  LET identifier == IdentifierOf(prefix, clientId)
      caller == <<prefix, clientId>>
      r == checkRateLimit(rateLimitStore, identifier, rlConfig, now)
      counted == CountFirstLimiter(limiter.ref, identifier, rlConfig, now)
      kept == checkRateLimit(limiter.unswept, identifier, rlConfig, now)
      alone == checkRateLimit(limiter.solo[caller], identifier, rlConfig, now)
  IN /\ counted.store[identifier].count <= rlConfig.maxRequests + MaxRejected
     /\ rateLimitStore' = r.store
     /\ rlResult' = [identifier |-> identifier, at |-> now,
                     allowed |-> r.result.allowed,
                     remaining |-> r.result.remaining,
                     resetTime |-> r.result.resetTime,
                     retryAfter |-> r.result.retryAfter]
     /\ limiter' = [last |-> "check", before |-> <<>>,
                    ref |-> counted.store, refResult |-> counted.result,
                    unswept |-> kept.store, unsweptResult |-> kept.result,
                    solo |-> [limiter.solo EXCEPT ![caller] = alone.store],
                    soloResult |-> alone.result,
                    allowedAt |-> [limiter.allowedAt EXCEPT ![caller] =
                                     IF r.result.allowed THEN Append(@, now) ELSE @]]
     /\ UNCHANGED <<now, rlConfig, gWinOpen, gCalls, gWindows, gRejected>>
     /\ UNCHANGED <<cacheVars, fetchVars, routeVars, metroVars, rankVars, concVars>>

\* the periodic cleanup timer fires
BucketSweep ==
  /\ rateLimitStore' = cleanupRateLimit(rateLimitStore, now)
  /\ rlResult' = NoResult
  /\ limiter' = [limiter EXCEPT
                   !.last = "sweep", !.before = rateLimitStore,
                   !.ref = cleanupRateLimit(limiter.ref, now),
                   !.refResult = NoOutcome, !.unsweptResult = NoOutcome,
                   !.soloResult = NoOutcome,
                   !.solo = [c \in Callers |-> cleanupRateLimit(limiter.solo[c], now)]]
  /\ UNCHANGED <<now, rlConfig, gWinOpen, gCalls, gWindows, gRejected>>
  /\ UNCHANGED <<cacheVars, fetchVars, routeVars, metroVars, rankVars, concVars>>

BucketNext ==
  \/ BucketTick
  \/ \E caller \in Callers : BucketCheck(caller[1], caller[2])
  \/ BucketSweep

SpecBucket == BucketInit /\ [][BucketNext]_vars

----------------------------------------------------------------------------
(* The api_cache table: rows {source, location_key, data, expires_at},      *)
(* unique on (source, location_key). The created_at column and the cacheAge *)
(* read from it are not followed.                                           *)

\* .eq("source", source).eq("location_key", locationKey)
SelectRows(store, source, key) ==
  {r \in store : r.source = source /\ r.location_key = key}

\* .single(): an error unless exactly one row matches
SingleOk(rows) == Cardinality(rows) = 1

TheRow(rows) == CHOOSE r \in rows : TRUE

InsertRow(store, row) == store \cup {row}

\* .upsert(row, { onConflict: "source,location_key" }): the row replaces the one it conflicts with
UpsertRow(store, row) ==
  (store \ SelectRows(store, row.source, row.location_key)) \cup {row}

----------------------------------------------------------------------------
(* lib/cache.ts *)

isValidAPISource(source) == source \in APISource

isCacheValidReversed(expiresAt, t) == t > expiresAt

\* expirationDate > now
isCacheValid(expiresAt, t) == expiresAt > t

CacheReadErrorThrows == Thrown

\* a query error or an exception in getCachedData: logged, null returned
CacheReadError == Null

\* getCachedData(source, locationKey) at time t
getCachedData(store, up, source, key, t) ==
  IF ~isValidAPISource(source) THEN Null
  ELSE IF key = "" THEN Null
  ELSE IF ~up THEN CacheReadError
  ELSE IF ~SingleOk(SelectRows(store, source, key)) THEN Null
  ELSE IF ~isCacheValid(TheRow(SelectRows(store, source, key)).expires_at, t) THEN Null
  ELSE TheRow(SelectRows(store, source, key)).data

\* expiresAt.setHours(expiresAt.getHours() + ttlHours), in days
ExpiresAt(source, t) == t + (CACHE_TTL_HOURS[source] \div HoursPerDay)

\* setCachedData(source, locationKey, data) at time t: the new store and the boolean returned
setCachedData(store, up, source, key, data, t) ==
  IF ~isValidAPISource(source) \/ key = "" \/ data = Null
  THEN [store |-> store, ok |-> FALSE]
  ELSE IF ~up
  THEN [store |-> store, ok |-> FALSE]
  ELSE [store |-> UpsertRow(store, [source |-> source, location_key |-> key, data |-> data,
                                    expires_at |-> ExpiresAt(source, t)]),
        ok |-> TRUE]

\* the rows invalidateCache(source?, locationKey?) deletes
InvalidateMatches(store, source, key) ==
  {r \in store : /\ (source # NoneArg => r.source = source)
                 /\ (key # NoneArg => r.location_key = key)}

\* invalidateCache(source?, locationKey?): the new store and the count returned (Undefined: null)
invalidateCache(store, up, source, key) ==
  IF source # NoneArg /\ ~isValidAPISource(source)
  THEN [store |-> store, count |-> Undefined]
  ELSE IF ~up
  THEN [store |-> store, count |-> Undefined]
  ELSE [store |-> store \ InvalidateMatches(store, source, key),
        count |-> Cardinality(InvalidateMatches(store, source, key))]

SweptLe(store, t) == {r \in store : r.expires_at <= t}

\* .lt("expires_at", now)
Swept(store, t) == {r \in store : r.expires_at < t}

\* cleanupExpiredCache(): the new store and the count returned (Undefined: null)
cleanupExpiredCache(store, up, t) ==
  IF ~up
  THEN [store |-> store, count |-> Undefined]
  ELSE [store |-> store \ Swept(store, t), count |-> Cardinality(Swept(store, t))]

----------------------------------------------------------------------------
(* lib/api/cache.ts: getCachedData, setCachedData and withCache *)

ApiMiss == [hit |-> FALSE, threw |-> FALSE, data |-> Null]

ApiReadErrorThrows == [hit |-> FALSE, threw |-> TRUE, data |-> Thrown]

\* if (error || !data) return null, and the catch block: null
ApiReadError == ApiMiss

ApiNotExpiredReversed(expiresAt, t) == expiresAt < t

\* .gt("expires_at", new Date().toISOString())
ApiNotExpired(expiresAt, t) == expiresAt > t

ApiSelect(store, source, key, t) ==
  {r \in SelectRows(store, source, key) : ApiNotExpired(r.expires_at, t)}

\* getCachedData(source, locationKey) of lib/api/cache.ts at time t
apiGetCachedData(store, up, source, key, t) ==
  IF ~up THEN ApiReadError
  ELSE IF ~SingleOk(ApiSelect(store, source, key, t)) THEN ApiMiss
  ELSE [hit |-> TRUE, threw |-> FALSE,
        data |-> TheRow(ApiSelect(store, source, key, t)).data]

apiSetCachedDataAny(key, data, config, t) ==
  {[source |-> config.source, location_key |-> key, data |-> data,
    expires_at |-> t + (config.ttlSeconds \div SecondsPerDay)]}

\* setCachedData(cacheKey, data, config) of lib/api/cache.ts at time t: the upserts it issues
apiSetCachedData(key, data, config, t) ==
  IF data = Null THEN {}
  ELSE {[source |-> config.source, location_key |-> key, data |-> data,
         expires_at |-> t + (config.ttlSeconds \div SecondsPerDay)]}

\* withCache(cacheKey, config, fetchFn), where fetchFn() gives outcome (a payload, null or
\* a thrown error) when it is called: what withCache returns and the upsert it issues
withCache(store, up, key, config, outcome, t) ==
  LET cached == apiGetCachedData(store, up, config.source, key, t) IN
    IF cached.threw
    THEN [ok |-> FALSE, data |-> Thrown, cached |-> FALSE,
          upstream |-> FALSE, writes |-> {}]
    ELSE IF cached.hit
    THEN [ok |-> TRUE, data |-> cached.data, cached |-> TRUE,
          upstream |-> FALSE, writes |-> {}]
    ELSE IF outcome = Thrown
    THEN [ok |-> FALSE, data |-> Thrown, cached |-> FALSE,
          upstream |-> TRUE, writes |-> {}]
    ELSE [ok |-> TRUE, data |-> outcome, cached |-> FALSE,
          upstream |-> TRUE, writes |-> apiSetCachedData(key, outcome, config, t)]

----------------------------------------------------------------------------
(* lib/api/hud.ts: fetchFairMarketRents over lib/cache.ts *)

\* fetchFairMarketRents(zipCode) for a well-formed ZIP at time t. crosswalk: whether
\* getMetroCodeForZip finds the ZIP; outcome: what fetchFMRByCBSA gives (the rents, null, or
\* a thrown error). It returns the rents alone: there is no cached flag in its result.
fetchFairMarketRents(store, up, key, crosswalk, outcome, t) ==
  LET cached == getCachedData(store, up, "hud", key, t) IN
    IF cached = Thrown
    THEN [ok |-> FALSE, data |-> Thrown, hit |-> FALSE, upstream |-> FALSE,
          store |-> store, stored |-> FALSE]
    ELSE IF cached # Null
    THEN [ok |-> TRUE, data |-> cached, hit |-> TRUE, upstream |-> FALSE,
          store |-> store, stored |-> FALSE]
    ELSE IF ~crosswalk
    THEN [ok |-> FALSE, data |-> Thrown, hit |-> FALSE, upstream |-> FALSE,
          store |-> store, stored |-> FALSE]
    ELSE IF outcome \in {Null, Thrown}
    THEN [ok |-> FALSE, data |-> Thrown, hit |-> FALSE, upstream |-> TRUE,
          store |-> store, stored |-> FALSE]
    ELSE [ok |-> TRUE, data |-> outcome, hit |-> FALSE, upstream |-> TRUE,
          store |-> setCachedData(store, up, "hud", key, outcome, t).store,
          stored |-> setCachedData(store, up, "hud", key, outcome, t).ok]

----------------------------------------------------------------------------
(* The cache store and its clients as a state machine *)

\* the keys fetchFairMarketRents uses, and the keys of the fetchers built on withCache
HudKeys == {k \in CacheKeys : k.source = "hud"}

WithCacheKeys == {k \in CacheKeys : k.source \in {"bea", "bls", "eia"}}

\* history: the last set of key k that reached the store, with the expires_at it wrote
Recorded(g, k, data, expiresAt) ==
  [g EXCEPT ![k] = [set |-> TRUE, data |-> data, expires_at |-> expiresAt,
                    prev |-> g[k].data]]

\* history: the keys an invalidation removed have no set any more
Forgotten(g, source, key) ==
  [k \in CacheKeys |->
     IF (source # NoneArg => k.source = source) /\ (key # NoneArg => k.location_key = key)
     THEN NoSet ELSE g[k]]

CacheInit ==
  /\ cacheKey \in CacheKeys
  /\ dbNow = 0
  /\ api_cache = {}
  /\ storeUp = TRUE
  /\ pendingWrites = {}
  /\ lastOp = NoOp
  /\ gLastSet = [k \in CacheKeys |-> NoSet]
  /\ RLIdle
  /\ FetchIdle
  /\ RouteIdle
  /\ MetroIdle
  /\ RankIdle
  /\ ConcIdle
  /\ HistIdle

\* time passes
DayTick(d) ==
  /\ dbNow + d <= MaxDay
  /\ dbNow' = dbNow + d
  /\ lastOp' = NoOp
  /\ UNCHANGED <<cacheKey, api_cache, storeUp, pendingWrites, gLastSet>>
  /\ UNCHANGED <<rlVars, fetchVars, routeVars, auxVars>>

\* the store becomes unreachable: every query returns an error
StoreDown ==
  /\ storeUp
  /\ storeUp' = FALSE
  /\ lastOp' = NoOp
  /\ UNCHANGED <<cacheKey, dbNow, api_cache, pendingWrites, gLastSet>>
  /\ UNCHANGED <<rlVars, fetchVars, routeVars, auxVars>>

StoreUp ==
  /\ ~storeUp
  /\ storeUp' = TRUE
  /\ lastOp' = NoOp
  /\ UNCHANGED <<cacheKey, dbNow, api_cache, pendingWrites, gLastSet>>
  /\ UNCHANGED <<rlVars, fetchVars, routeVars, auxVars>>

\* setCachedData(source, locationKey, data) of lib/cache.ts
CacheSet(k, data) ==
  LET r == setCachedData(api_cache, storeUp, k.source, k.location_key, data, dbNow) IN
    /\ api_cache' = r.store
    /\ lastOp' = [NoOp EXCEPT !.op = "set", !.source = k.source, !.key = k.location_key,
                              !.data = data, !.ok = r.ok, !.storeOk = storeUp]
    /\ gLastSet' = IF r.ok THEN Recorded(gLastSet, k, data, ExpiresAt(k.source, dbNow))
                   ELSE gLastSet
    /\ UNCHANGED <<cacheKey, dbNow, storeUp, pendingWrites>>
    /\ UNCHANGED <<rlVars, fetchVars, routeVars, auxVars>>

\* getCachedData(source, locationKey) of lib/cache.ts
CacheGet(k) ==
  LET d == getCachedData(api_cache, storeUp, k.source, k.location_key, dbNow) IN
    /\ lastOp' = [NoOp EXCEPT !.op = "get", !.source = k.source, !.key = k.location_key,
                              !.data = d, !.ok = (d # Thrown), !.hit = (d \notin {Null, Thrown}),
                              !.storeOk = storeUp, !.seen = gLastSet[k]]
    /\ UNCHANGED <<cacheKey, dbNow, api_cache, storeUp, pendingWrites, gLastSet>>
    /\ UNCHANGED <<rlVars, fetchVars, routeVars, auxVars>>

\* getCachedData(source, locationKey) of lib/api/cache.ts
ApiGet(k) ==
  LET c == apiGetCachedData(api_cache, storeUp, k.source, k.location_key, dbNow) IN
    /\ lastOp' = [NoOp EXCEPT !.op = "apiGet", !.source = k.source, !.key = k.location_key,
                              !.data = c.data, !.ok = ~c.threw, !.hit = c.hit,
                              !.storeOk = storeUp, !.seen = gLastSet[k]]
    /\ UNCHANGED <<cacheKey, dbNow, api_cache, storeUp, pendingWrites, gLastSet>>
    /\ UNCHANGED <<rlVars, fetchVars, routeVars, auxVars>>

\* invalidateCache(source?, locationKey?) of lib/cache.ts
CacheInvalidate(source, key) ==
  LET r == invalidateCache(api_cache, storeUp, source, key) IN
    /\ api_cache' = r.store
    /\ lastOp' = [NoOp EXCEPT !.op = "invalidate", !.source = source, !.key = key,
                              !.ok = (r.count # Undefined), !.count = r.count,
                              !.storeOk = storeUp]
    /\ gLastSet' = IF r.count # Undefined THEN Forgotten(gLastSet, source, key) ELSE gLastSet
    /\ UNCHANGED <<cacheKey, dbNow, storeUp, pendingWrites>>
    /\ UNCHANGED <<rlVars, fetchVars, routeVars, auxVars>>

\* invalidateCache(source, locationKey) of lib/api/cache.ts: errors are logged, nothing returned
ApiInvalidate(k) ==
  /\ api_cache' = IF storeUp THEN api_cache \ SelectRows(api_cache, k.source, k.location_key)
                  ELSE api_cache
  /\ lastOp' = [NoOp EXCEPT !.op = "apiInvalidate", !.source = k.source,
                            !.key = k.location_key, !.storeOk = storeUp]
  /\ gLastSet' = IF storeUp THEN Forgotten(gLastSet, k.source, k.location_key) ELSE gLastSet
  /\ UNCHANGED <<cacheKey, dbNow, storeUp, pendingWrites>>
  /\ UNCHANGED <<rlVars, fetchVars, routeVars, auxVars>>

\* cleanupExpiredCache(): the sweep
CacheSweep ==
  LET r == cleanupExpiredCache(api_cache, storeUp, dbNow) IN
    /\ api_cache' = r.store
    /\ lastOp' = [NoOp EXCEPT !.op = "sweep", !.ok = (r.count # Undefined), !.count = r.count,
                              !.storeOk = storeUp]
    /\ UNCHANGED <<cacheKey, dbNow, storeUp, pendingWrites, gLastSet>>
    /\ UNCHANGED <<rlVars, fetchVars, routeVars, auxVars>>

\* a fetcher's withCache(cacheKey, config, fetchFn) call up to its return; the upsert of
\* the setCachedData call it does not await is left in flight
WrapFetch(k, outcome) ==
  LET r == withCache(api_cache, storeUp, k.location_key, CacheConfigOf(k.source), outcome, dbNow) IN
    /\ k \in WithCacheKeys
    /\ Cardinality(pendingWrites \cup r.writes) <= MaxPending
    /\ pendingWrites' = pendingWrites \cup r.writes
    /\ lastOp' = [NoOp EXCEPT !.op = "withCache", !.source = k.source, !.key = k.location_key,
                              !.data = r.data, !.ok = r.ok, !.hit = r.cached,
                              !.cached = r.cached, !.upstream = r.upstream,
                              !.fetched = outcome, !.storeOk = storeUp,
                              !.seen = gLastSet[k]]
    /\ UNCHANGED <<cacheKey, dbNow, api_cache, storeUp, gLastSet>>
    /\ UNCHANGED <<rlVars, fetchVars, routeVars, auxVars>>

\* the upsert of an un-awaited setCachedData reaches the store, or fails and is logged
WrapWrite(w) ==
  /\ pendingWrites' = pendingWrites \ {w}
  /\ api_cache' = IF storeUp THEN UpsertRow(api_cache, w) ELSE api_cache
  /\ lastOp' = [NoOp EXCEPT !.op = "write", !.source = w.source, !.key = w.location_key,
                            !.data = w.data, !.ok = storeUp, !.storeOk = storeUp]
  /\ gLastSet' = IF storeUp
                 THEN Recorded(gLastSet, [source |-> w.source, location_key |-> w.location_key],
                               w.data, w.expires_at)
                 ELSE gLastSet
  /\ UNCHANGED <<cacheKey, dbNow, storeUp>>
  /\ UNCHANGED <<rlVars, fetchVars, routeVars, auxVars>>

\* fetchFairMarketRents(zipCode)
HudFetch(k, crosswalk, outcome) ==
  LET r == fetchFairMarketRents(api_cache, storeUp, k.location_key, crosswalk, outcome, dbNow) IN
    /\ k \in HudKeys
    /\ api_cache' = r.store
    /\ lastOp' = [NoOp EXCEPT !.op = "hudFetch", !.source = k.source, !.key = k.location_key,
                              !.data = r.data, !.ok = r.ok, !.hit = r.hit,
                              !.upstream = r.upstream, !.found = crosswalk,
                              !.fetched = outcome, !.storeOk = storeUp,
                              !.seen = gLastSet[k]]
    /\ gLastSet' = IF r.stored THEN Recorded(gLastSet, k, outcome, ExpiresAt(k.source, dbNow))
                   ELSE gLastSet
    /\ UNCHANGED <<cacheKey, dbNow, storeUp, pendingWrites>>
    /\ UNCHANGED <<rlVars, fetchVars, routeVars, auxVars>>

CacheNext ==
  \/ \E d \in DaySteps : DayTick(d)
  \/ StoreDown
  \/ StoreUp
  \/ \E data \in Payloads \cup {Null} : CacheSet(cacheKey, data)
  \/ CacheGet(cacheKey)
  \/ ApiGet(cacheKey)
  \/ \E source \in {cacheKey.source, NoneArg}, key \in {cacheKey.location_key, NoneArg} :
       CacheInvalidate(source, key)
  \/ ApiInvalidate(cacheKey)
  \/ CacheSweep
  \/ \E outcome \in Payloads \cup {Null, Thrown} : WrapFetch(cacheKey, outcome)
  \/ \E w \in pendingWrites : WrapWrite(w)
  \/ \E crosswalk \in BOOLEAN, outcome \in Payloads \cup {Null, Thrown} :
       HudFetch(cacheKey, crosswalk, outcome)

SpecCache == CacheInit /\ [][CacheNext]_vars

----------------------------------------------------------------------------
(* The sweep on a table that holds rows of several keys, written on earlier *)
(* days by setCachedData of lib/cache.ts                                    *)

\* the day on which a row written on day 0 with the long lifetime expires
StartDay == ExpiresAt("hud", 0)

\* the days on which the rows in the table were written
WrittenDays == {0, StartDay - ExpiresAt("eia", 0), StartDay}

\* the tables with at most one row per key
StoresAtStart ==
  {rows \in SUBSET {[source |-> k.source, location_key |-> k.location_key,
                     data |-> "p1", expires_at |-> ExpiresAt(k.source, d)] :
                      k \in CacheKeys, d \in WrittenDays} :
     \A k \in CacheKeys :
       Cardinality(SelectRows(rows, k.source, k.location_key)) <= 1}

SweepInit ==
  /\ cacheKey \in CacheKeys
  /\ dbNow = StartDay
  /\ api_cache \in StoresAtStart
  /\ storeUp = TRUE
  /\ pendingWrites = {}
  /\ lastOp = NoOp
  /\ gLastSet = [k \in CacheKeys |-> NoSet]
  /\ RLIdle
  /\ FetchIdle
  /\ RouteIdle
  /\ MetroIdle
  /\ RankIdle
  /\ ConcIdle
  /\ HistIdle

SweepNext ==
  \/ \E d \in DaySteps : DayTick(d)
  \/ StoreDown
  \/ StoreUp
  \/ CacheGet(cacheKey)
  \/ ApiGet(cacheKey)
  \/ CacheSweep

SpecSweep == SweepInit /\ [][SweepNext]_vars

----------------------------------------------------------------------------
(* Concurrent requests for one key: the awaits of withCache (lib/api/cache.ts) and of
   fetchFairMarketRents (lib/api/hud.ts over lib/cache.ts) as separate steps *)

\* the rows the store can hold for the key when the requests arrive: none, a row that
\* has expired, a live row
StoredBefore(k) ==
  {{}} \cup {{[source |-> k.source, location_key |-> k.location_key, data |-> "P1",
               expires_at |-> e]} : e \in {0, 1}}

ConcInit ==
  /\ cacheKey \in CacheKeys
  /\ dbNow = 0
  /\ api_cache \in StoredBefore(cacheKey)
  /\ storeUp = TRUE
  /\ pendingWrites = {}
  /\ lastOp = NoOp
  /\ gLastSet = [k \in CacheKeys |-> NoSet]
  /\ requests = [r \in Requests |-> NoRequest]
  /\ RLIdle
  /\ FetchIdle
  /\ RouteIdle
  /\ MetroIdle
  /\ RankIdle
  /\ HistIdle

\* what the cache read of a fetcher for key k returns: getCachedData of lib/cache.ts for
\* rent, getCachedData of lib/api/cache.ts under withCache for the other sources
ReadFor(store, k, t) ==
  IF k.source = "hud"
  THEN LET d == getCachedData(store, TRUE, k.source, k.location_key, t) IN
         [hit |-> d # Null, data |-> d]
  ELSE LET c == apiGetCachedData(store, TRUE, k.source, k.location_key, t) IN
         [hit |-> c.hit, data |-> c.data]

\* the row the setCachedData call of a fetcher for key k sends to the store
RowFor(k, data, t) ==
  IF k.source = "hud"
  THEN {[source |-> k.source, location_key |-> k.location_key, data |-> data,
         expires_at |-> ExpiresAt(k.source, t)]}
  ELSE apiSetCachedData(k.location_key, data, CacheConfigOf(k.source), t)

AfterReadIgnoringHit(source, hit) == IF source = "hud" THEN "resolving" ELSE "fetching"

\* where a fetcher goes after its cache read: if (cached) return; otherwise
\* fetchFairMarketRents looks up the crosswalk and withCache calls fetchFn
AfterRead(source, hit) ==
  IF hit THEN "done" ELSE IF source = "hud" THEN "resolving" ELSE "fetching"

\* request r awaits the cache read: a hit is returned at once
ConcRead(r) ==
  LET c == ReadFor(api_cache, cacheKey, dbNow) IN
    /\ requests[r].pc = "start"
    /\ requests' = [requests EXCEPT ![r] =
                      [@ EXCEPT !.pc = AfterRead(cacheKey.source, c.hit),
                                !.data = IF c.hit THEN c.data ELSE @,
                                !.cached = c.hit]]
    /\ UNCHANGED <<rlVars, cacheVars, fetchVars, routeVars, metroVars, rankVars, histVars>>

\* request r of fetchFairMarketRents awaits getMetroCodeForZip: no crosswalk is an Error
ConcResolve(r, crosswalk) ==
  /\ requests[r].pc = "resolving"
  /\ requests' = [requests EXCEPT ![r] =
                    IF crosswalk
                    THEN [@ EXCEPT !.pc = "fetching", !.resolver = @ + 1]
                    ELSE [@ EXCEPT !.pc = "done", !.data = Thrown, !.resolver = @ + 1]]
  /\ UNCHANGED <<rlVars, cacheVars, fetchVars, routeVars, metroVars, rankVars, histVars>>

\* the upstream call of request r settles: a thrown error ends the request, a payload is
\* handed to setCachedData, whose upsert is then in flight
ConcFetch(r, outcome) ==
  /\ requests[r].pc = "fetching"
  /\ requests' = [requests EXCEPT ![r] =
                    IF outcome = Thrown
                    THEN [@ EXCEPT !.pc = "done", !.data = Thrown, !.upstream = @ + 1]
                    ELSE [@ EXCEPT !.pc = "writing", !.data = outcome, !.upstream = @ + 1,
                                   !.row = RowFor(cacheKey, outcome, dbNow)]]
  /\ UNCHANGED <<rlVars, cacheVars, fetchVars, routeVars, metroVars, rankVars, histVars>>

\* the upsert of request r reaches the store, or fails and is logged
ConcWrite(r, ok) ==
  /\ requests[r].pc = "writing"
  /\ api_cache' = IF ok THEN UpsertRow(api_cache, TheRow(requests[r].row)) ELSE api_cache
  /\ requests' = [requests EXCEPT ![r] = [@ EXCEPT !.pc = "done", !.wrote = ok]]
  /\ UNCHANGED <<cacheKey, dbNow, storeUp, pendingWrites, lastOp, gLastSet>>
  /\ UNCHANGED <<rlVars, fetchVars, routeVars, metroVars, rankVars, histVars>>

ConcNext ==
  \/ \E r \in Requests : ConcRead(r)
  \/ \E r \in Requests, crosswalk \in BOOLEAN : ConcResolve(r, crosswalk)
  \/ \E r \in Requests, outcome \in Payloads \cup {Thrown} : ConcFetch(r, outcome)
  \/ \E r \in Requests, ok \in BOOLEAN : ConcWrite(r, ok)

SpecConc == ConcInit /\ [][ConcNext]_vars

----------------------------------------------------------------------------
(* The fetchers' upstream calls: lib/api/eia.ts, bea.ts, bls.ts, hud.ts *)

\* stateCode.toUpperCase(), character by character
ToUpperChar(c) ==
  IF \E i \in 1..Len(LowerLetters) : LowerLetters[i] = c
  THEN UpperLetters[CHOOSE i \in 1..Len(LowerLetters) : LowerLetters[i] = c]
  ELSE c

toUpperCase(str) == [i \in 1..Len(str) |-> ToUpperChar(str[i])]

\* /^[A-Z]{2}$/.test(upperState)
IsStateCode(upperState) ==
  /\ Len(upperState) = 2
  /\ \A i \in 1..2 : \E j \in 1..Len(UpperLetters) : UpperLetters[j] = upperState[i]

\* await fetch(url) without a timeout when the upstream never answers: the call stays
\* pending, or the platform gives up and fetch rejects with a TypeError
UnboundedFetchNoAnswer == {Pending, Rejected("TypeError")}

\* the 2xx body is not JSON: response.json() rejects with a SyntaxError
JsonParseFailure == Rejected("SyntaxError")

\* throw new APIError(APIErrorCode.UPSTREAM_ERROR, ..., 502)
UpstreamError == Rejected("UPSTREAM_ERROR")

\* the fetchFn of getElectricityPricesByState
ElectricityFetchFn(resp, price) ==
  CASE resp = "timeout" -> UnboundedFetchNoAnswer
    [] resp = "non2xx" -> {UpstreamError}
    [] resp = "unparseable" -> {JsonParseFailure}
    [] resp = "empty" -> {Fulfilled("empty", Undefined)}
    [] OTHER -> {Fulfilled("data", price)}

\* if (!response.ok) { console.warn(...); return {}; } of the gasoline and natural gas series
ReturnEmptyOnNon2xx == Fulfilled("empty", Undefined)

\* the fetchFn of getGasolinePricesByState
GasolineFetchFn(resp, price) ==
  CASE resp = "timeout" -> UnboundedFetchNoAnswer
    [] resp = "non2xx" -> {ReturnEmptyOnNon2xx}
    [] resp = "unparseable" -> {JsonParseFailure}
    [] resp = "empty" -> {Fulfilled("empty", Undefined)}
    [] OTHER -> {Fulfilled("data", price)}

\* the fetchFn of getNaturalGasPricesByState
NaturalGasFetchFn(resp, price) ==
  CASE resp = "timeout" -> UnboundedFetchNoAnswer
    [] resp = "non2xx" -> {ReturnEmptyOnNon2xx}
    [] resp = "unparseable" -> {JsonParseFailure}
    [] resp = "empty" -> {Fulfilled("empty", Undefined)}
    [] OTHER -> {Fulfilled("data", price)}

\* the fetchFn of getRPPAllStates and getRPPAllMetros (list) and of getRPPByStateFips and
\* getRPPByMetroCode (one): no row of the year gives an empty list, or null
RppFetchFn(one, resp) ==
  CASE resp = "timeout" -> UnboundedFetchNoAnswer
    [] resp = "non2xx" -> {UpstreamError}
    [] resp = "unparseable" -> {JsonParseFailure}
    [] resp = "empty" -> {Fulfilled(IF one THEN "null" ELSE "empty", Undefined)}
    [] OTHER -> {Fulfilled("data", Undefined)}

\* fetchBLSData and the fetchFn around it: getCPIByRegion fills the values of a series
\* without points with 0 and its index with 100, getCPITimeSeries returns the empty list
CpiFetchFn(region, resp) ==
  CASE resp = "timeout" -> UnboundedFetchNoAnswer
    [] resp = "non2xx" -> {UpstreamError}
    [] resp = "unparseable" -> {JsonParseFailure}
    [] resp = "empty" -> {Fulfilled(IF region THEN "zero" ELSE "empty", Undefined)}
    [] OTHER -> {Fulfilled("data", Undefined)}

\* fetchFMRByCBSA: the call is aborted after HUD_API_CONFIG.timeout; every failure is a
\* plain Error; no feature gives null
fetchFMRByCBSA(resp) ==
  CASE resp = "timeout" -> {Rejected("Error")}
    [] resp = "non2xx" -> {Rejected("Error")}
    [] resp = "unparseable" -> {JsonParseFailure}
    [] resp = "empty" -> {Fulfilled("null", Undefined)}
    [] OTHER -> {Fulfilled("data", Undefined)}

\* the outcomes of the upstream call of a fetcher
FetchFn(fetcher, resp, price) ==
  CASE fetcher = "electricity" -> ElectricityFetchFn(resp, price)
    [] fetcher = "gasoline" -> GasolineFetchFn(resp, price)
    [] fetcher = "naturalGas" -> NaturalGasFetchFn(resp, price)
    [] fetcher = "rppList" -> RppFetchFn(FALSE, resp)
    [] fetcher = "rppOne" -> RppFetchFn(TRUE, resp)
    [] fetcher = "cpiRegion" -> CpiFetchFn(TRUE, resp)
    [] fetcher = "cpiSeries" -> CpiFetchFn(FALSE, resp)
    [] OTHER -> fetchFMRByCBSA(resp)

\* buildEIAUrl throws when EIA_API_KEY is not set, before the series reads its cache
SubSeries(fetcher, keyOk, resp, price) ==
  IF ~keyOk THEN {Rejected("INTERNAL_ERROR")} ELSE FetchFn(fetcher, resp, price)

\* results[i].status === 'fulfilled' ? results[i].value : null, then ?.data?.[upperState]
PriceOf(settled, upperState) ==
  IF settled.status = "fulfilled" /\ settled.value = "data" /\ upperState = DataState
  THEN settled.price
  ELSE Undefined

NoEnergyDataEither(electricityPrice, gasolinePrice) ==
  electricityPrice = Undefined \/ gasolinePrice = Undefined

\* electricityPrice === undefined && gasolinePrice === undefined
NoEnergyData(electricityPrice, gasolinePrice) ==
  electricityPrice = Undefined /\ gasolinePrice = Undefined

NaturalGasOrZero(settled, upperState) ==
  IF PriceOf(settled, upperState) = Undefined THEN 0 ELSE PriceOf(settled, upperState)

\* const naturalGasPrice = gasResult?.data?.[upperState]
NaturalGasPriceOf(settled, upperState) == PriceOf(settled, upperState)

\* getEnergyPricesByState(stateCode) on a miss of its own cache entry, the three series
\* having settled as e, n, g (Promise.allSettled): the fields of the result that carry
\* the prices; the national averages and indexes are not followed
getEnergyPricesByState(stateCode, e, n, g) ==
  LET upperState == toUpperCase(stateCode) IN
    IF ~IsStateCode(upperState)
    THEN [status |-> "rejected", error |-> "INVALID_PARAMS", isNull |-> FALSE,
          electricityPrice |-> Undefined, naturalGasPrice |-> Undefined,
          gasolinePrice |-> Undefined]
    ELSE IF "pending" \in {e.status, n.status, g.status}
    THEN [status |-> "pending", error |-> "none", isNull |-> FALSE,
          electricityPrice |-> Undefined, naturalGasPrice |-> Undefined,
          gasolinePrice |-> Undefined]
    ELSE IF NoEnergyData(PriceOf(e, upperState), PriceOf(g, upperState))
    THEN [status |-> "fulfilled", error |-> "none", isNull |-> TRUE,
          electricityPrice |-> Undefined, naturalGasPrice |-> Undefined,
          gasolinePrice |-> Undefined]
    ELSE [status |-> "fulfilled", error |-> "none", isNull |-> FALSE,
          electricityPrice |-> PriceOf(e, upperState),
          naturalGasPrice |-> NaturalGasPriceOf(n, upperState),
          gasolinePrice |-> PriceOf(g, upperState)]

\* Promise.all of the three series in getAllStateEnergyPrices, then .forEach and .get on
\* the plain records they return, which throws a TypeError
AllStatesFetchFn(e, n, g) ==
  IF \E x \in {e, n, g} : x.status = "rejected"
  THEN {Rejected(x.error) : x \in {y \in {e, n, g} : y.status = "rejected"}}
  ELSE IF \E x \in {e, n, g} : x.status = "pending"
  THEN {Pending}
  ELSE {Rejected("TypeError")}

FetchInit ==
  /\ FetchIdle
  /\ RLIdle
  /\ CacheIdle
  /\ RouteIdle
  /\ MetroIdle
  /\ RankIdle
  /\ ConcIdle
  /\ HistIdle

\* const data = await fetchFn(); setCachedData(cacheKey, data, config): the value fetchFn
\* returns is written to the cache unless it is null; a rejection leaves withCache before
CacheWrite(outcome) == outcome.status = "fulfilled" /\ outcome.value # "null"

\* one upstream call of one fetcher, on a cache miss
UpstreamFetch(fetcher, resp, price) ==
  /\ FetchIdle
  /\ \E o \in FetchFn(fetcher, resp, price) :
       lastFetch' = [op |-> "fetch", fetcher |-> fetcher, resp |-> resp, outcome |-> o,
                     cacheWrite |-> CacheWrite(o)]
  /\ lastEnergy' = NoEnergy
  /\ UNCHANGED <<rlVars, cacheVars, routeVars, auxVars>>

\* getEnergyPricesByState(stateCode) on a cache miss
EnergyByState(stateCode, keyOk, re, rn, rg) ==
  /\ FetchIdle
  /\ \E e \in SubSeries("electricity", keyOk, re.resp, re.price),
        n \in SubSeries("naturalGas", keyOk, rn.resp, rn.price),
        g \in SubSeries("gasoline", keyOk, rg.resp, rg.price) :
       lastEnergy' = [op |-> "energy", stateCode |-> stateCode, keyOk |-> keyOk,
                      electricity |-> re, naturalGas |-> rn, gasoline |-> rg]
                     @@ getEnergyPricesByState(stateCode, e, n, g)
  /\ lastFetch' = NoFetch
  /\ UNCHANGED <<rlVars, cacheVars, routeVars, auxVars>>

\* fetchBEAData(year) of scripts/generate-state-col-data.ts: a non-2xx answer is a
\* thrown Error, no row of the year is an empty Data list
fetchBEAData(resp) ==
  CASE resp = "timeout" -> UnboundedFetchNoAnswer
    [] resp = "non2xx" -> {Rejected("Error")}
    [] resp = "unparseable" -> {JsonParseFailure}
    [] resp = "empty" -> {Fulfilled("empty", Undefined)}
    [] OTHER -> {Fulfilled("data", Undefined)}

\* main() of the script up to processData: resp is the answer of the upstream for the
\* year asked (year 0), prior its answer for the year before (year -1). The result and
\* the years queried, in order
main(resp, prior) ==
  LET processData(answer) == IF answer.status = "fulfilled" /\ answer.value = "empty"
                             THEN Rejected("Error")
                             ELSE answer
  IN UNION {IF first.status = "rejected"
            THEN {[years |-> <<0, -1>>, outcome |-> processData(second)] :
                    second \in fetchBEAData(prior)}
            ELSE {[years |-> <<0>>, outcome |-> processData(first)]} :
              first \in fetchBEAData(resp)}

\* a price-parity query for the latest year: getRPPAllStates() on a cache miss, or a
\* run of the script
RppQuery(caller, resp, prior) ==
  /\ FetchIdle
  /\ \E r \in IF caller = "main" THEN main(resp, prior)
              ELSE {[years |-> <<0>>, outcome |-> o] : o \in RppFetchFn(FALSE, resp)} :
       lastFetch' = [op |-> "rpp", fetcher |-> caller, resp |-> resp, outcome |-> r.outcome,
                     prior |-> prior, years |-> r.years]
  /\ lastEnergy' = NoEnergy
  /\ UNCHANGED <<rlVars, cacheVars, routeVars, auxVars>>

\* the fetchFn of getAllStateEnergyPrices() on a cache miss
EnergyAllStates(keyOk, re, rn, rg) ==
  /\ FetchIdle
  /\ \E e \in SubSeries("electricity", keyOk, re.resp, re.price),
        n \in SubSeries("naturalGas", keyOk, rn.resp, rn.price),
        g \in SubSeries("gasoline", keyOk, rg.resp, rg.price) :
       \E o \in AllStatesFetchFn(e, n, g) :
         lastEnergy' = [NoEnergy EXCEPT !.op = "energyAll", !.keyOk = keyOk,
                                        !.electricity = re, !.naturalGas = rn,
                                        !.gasoline = rg, !.status = o.status,
                                        !.error = o.error]
  /\ lastFetch' = NoFetch
  /\ UNCHANGED <<rlVars, cacheVars, routeVars, auxVars>>

\* the caller has taken the result; the next call can start
FetchReturn ==
  /\ ~FetchIdle
  /\ lastFetch' = NoFetch
  /\ lastEnergy' = NoEnergy
  /\ UNCHANGED <<rlVars, cacheVars, routeVars, auxVars>>

\* the answers of an upstream series to one call: its kind and, with rows, the price
SeriesAnswers ==
  {[resp |-> r, price |-> Undefined] : r \in RespKinds \ {"ok"}}
    \cup {[resp |-> "ok", price |-> p] : p \in Prices}

FetchNext ==
  \/ \E fetcher \in Fetchers, a \in SeriesAnswers : UpstreamFetch(fetcher, a.resp, a.price)
  \/ \E stateCode \in StateCodes, keyOk \in BOOLEAN, re \in SeriesAnswers,
        rn \in SeriesAnswers, rg \in SeriesAnswers :
       EnergyByState(stateCode, keyOk, re, rn, rg)
  \/ \E keyOk \in BOOLEAN, re \in SeriesAnswers, rn \in SeriesAnswers, rg \in SeriesAnswers :
       EnergyAllStates(keyOk, re, rn, rg)
  \/ \E caller \in {"getRPPAllStates", "main"}, resp \in RespKinds, prior \in RespKinds :
       RppQuery(caller, resp, prior)
  \/ FetchReturn

SpecFetch == FetchInit /\ [][FetchNext]_vars

----------------------------------------------------------------------------
(* The route handlers: app/api/eia, app/api/bls, app/api/bea, app/api/hud *)

\* RATE_LIMITS.heavy
RATE_LIMITS_heavy == [windowMs |-> 60000, maxRequests |-> 30]

\* `eia:${clientId}`, `bls:${clientId}`, `bea:${clientId}` for the one client followed
RouteIdentifier == [energy |-> "eia:10.0.0.1", priceIndex |-> "bls:10.0.0.1",
                    priceParity |-> "bea:10.0.0.1"]

\* new APIError(code, message, statusCode) as the fetchers construct it
StatusCodeOf(error) ==
  CASE error = "UPSTREAM_ERROR" -> 502
    [] error = "INVALID_PARAMS" -> 400
    [] error = "NOT_FOUND" -> 404
    [] OTHER -> 500

IsAPIError(error) == error \in {"UPSTREAM_ERROR", "INVALID_PARAMS", "INTERNAL_ERROR"}

\* the answer sent when checkRateLimit does not allow the request
RateLimitedResponse(ep, result) ==
  [NoResponse EXCEPT !.endpoint = ep, !.status = 429, !.code = "RATE_LIMITED",
                     !.trace = <<"ratelimit">>, !.retryAfter = HasRetryAfterHeader(result),
                     !.message = "literal"]

\* NextResponse.json({ success: false, error: { code, message } }, { status }) with a
\* message written in the handler
ErrorResponse(ep, status, code, trace) ==
  [NoResponse EXCEPT !.endpoint = ep, !.status = status, !.code = code, !.trace = trace,
                     !.message = "literal"]

\* an error response built in a catch block: caught is the error caught, and message
\* tells whether the response carries error.message or a text written in the handler
CaughtResponse(ep, status, code, trace, caught, message) ==
  [ErrorResponse(ep, status, code, trace) EXCEPT !.caught = caught, !.message = message]

\* NextResponse.json({ success: true, data, meta: { cached } })
SuccessResponse(ep, data, cached, trace) ==
  [NoResponse EXCEPT !.endpoint = ep, !.status = 200, !.success = TRUE, !.data = data,
                     !.cached = cached, !.trace = trace]

\* the handler awaits a promise that never settles: no response is sent
NoAnswer(ep, trace) == [NoResponse EXCEPT !.endpoint = ep, !.trace = trace]

\* the catch block of the energy, price-index and price-parity handlers
CatchAPIError(ep, error, trace) ==
  IF IsAPIError(error)
  THEN CaughtResponse(ep, StatusCodeOf(error), error, trace, "APIError", "error.message")
  ELSE CaughtResponse(ep, 500, "INTERNAL_ERROR", trace, error, "literal")

\* the row a cache hit reads
HitStore(source, key, hit) ==
  IF hit THEN {[source |-> source, location_key |-> key, data |-> "P1", expires_at |-> 1]}
  ELSE {}

\* what a settled fetchFn hands to withCache
OutcomeOf(settled) ==
  IF settled.status = "rejected" THEN Thrown
  ELSE IF settled.value = "null" THEN Null
  ELSE "P2"

\* a fetcher built on withCache, its fetchFn settling as o on a miss: the settled result,
\* the cached flag and the accesses made, in order
CachedCall(source, key, hit, o) ==
  LET r == withCache(HitStore(source, key, hit), TRUE, key, CacheConfigOf(source),
                     OutcomeOf(o), 0) IN
    IF r.cached
    THEN [settled |-> Fulfilled("data", Undefined), cached |-> TRUE, trace |-> <<"cache">>]
    ELSE IF o.status = "pending"
    THEN [settled |-> Pending, cached |-> FALSE, trace |-> <<"cache", "upstream">>]
    ELSE [settled |-> o, cached |-> FALSE,
          trace |-> IF r.writes = {} THEN <<"cache", "upstream">>
                    ELSE <<"cache", "upstream", "cacheWrite">>]

\* the answer of a handler to the settled result of its fetcher
Respond(ep, call, trace) ==
  IF call.settled.status = "pending" THEN NoAnswer(ep, trace \o call.trace)
  ELSE IF call.settled.status = "rejected"
  THEN CatchAPIError(ep, call.settled.error, trace \o call.trace)
  ELSE SuccessResponse(ep, call.settled.value, call.cached, trace \o call.trace)

\* the fetchFn of getEnergyPricesByState as a settled result
StateFetchFn(stateCode, e, n, g) ==
  LET r == getEnergyPricesByState(stateCode, e, n, g) IN
    IF r.status = "fulfilled"
    THEN Fulfilled(IF r.isNull THEN "null" ELSE "data", Undefined)
    ELSE IF r.status = "rejected" THEN Rejected(r.error)
    ELSE Pending

\* GET /api/eia after the limiter allowed the request
EnergyHandler(type, stateCode, hit, e, n, g) ==
  LET ep == "energy"
      rl == <<"ratelimit">>
      keyAll == "eia:energy-all-states:{}"
      keyState == "eia:energy-state:CA"
  IN
    CASE type \in {"all", "utility"} ->
           {Respond(ep, CachedCall("eia", keyAll, hit, o), rl) : o \in AllStatesFetchFn(e, n, g)}
      [] type \in {"state", "utility-state"} ->
           IF stateCode = <<>>
           THEN {ErrorResponse(ep, 400, "INVALID_PARAMS", rl)}
           ELSE IF ~IsStateCode(toUpperCase(stateCode))
           THEN {CatchAPIError(ep, "INVALID_PARAMS", rl)}
           ELSE LET call == CachedCall("eia", keyState, hit, StateFetchFn(stateCode, e, n, g)) IN
                  IF /\ type = "utility-state"
                     /\ call.settled.status = "fulfilled"
                     /\ call.settled.value = "null"
                  THEN {ErrorResponse(ep, 404, "NOT_FOUND", rl \o call.trace)}
                  ELSE {Respond(ep, call, rl)}
      [] OTHER -> {ErrorResponse(ep, 400, "INVALID_PARAMS", rl)}

\* GET /api/bls after the limiter allowed the request; param: the state or region
\* parameter the type needs is "missing", "valid" or "invalid"
PriceIndexHandler(type, param, hit, resp) ==
  LET ep == "priceIndex"
      rl == <<"ratelimit">>
  IN
    CASE type = "national" ->
           {Respond(ep, CachedCall("bls", "bls:cpi-region:national", hit, o), rl) :
              o \in FetchFn("cpiRegion", resp, Undefined)}
      [] type = "state" ->
           IF param = "missing" THEN {ErrorResponse(ep, 400, "INVALID_PARAMS", rl)}
           ELSE {Respond(ep, CachedCall("bls", "bls:cpi-region:west", hit, o), rl) :
                   o \in FetchFn("cpiRegion", resp, Undefined)}
      [] type = "region" ->
           IF param \in {"missing", "invalid"} THEN {ErrorResponse(ep, 400, "INVALID_PARAMS", rl)}
           ELSE {Respond(ep, CachedCall("bls", "bls:cpi-region:west", hit, o), rl) :
                   o \in FetchFn("cpiRegion", resp, Undefined)}
      [] type = "timeseries" ->
           \* CPI_SERIES[regionKey] is undefined for a region it does not list
           IF param = "invalid" THEN {CatchAPIError(ep, "TypeError", rl)}
           ELSE {Respond(ep, CachedCall("bls", "bls:cpi-timeseries:national", hit, o), rl) :
                   o \in FetchFn("cpiSeries", resp, Undefined)}
      [] type = "regions" -> {SuccessResponse(ep, "static", FALSE, rl)}
      [] OTHER -> {ErrorResponse(ep, 400, "INVALID_PARAMS", rl)}

\* GET /api/bea after the limiter allowed the request: buildBEAUrl throws without the
\* key before the fetcher reads the cache
PriceParityHandler(type, param, keyOk, hit, resp) ==
  LET ep == "priceParity"
      rl == <<"ratelimit">>
      fetch(fetcher, key) ==
        IF ~keyOk THEN {CatchAPIError(ep, "INTERNAL_ERROR", rl)}
        ELSE {Respond(ep, CachedCall("bea", key, hit, o), rl) :
                o \in FetchFn(fetcher, resp, Undefined)}
  IN
    CASE type = "states" -> fetch("rppList", "bea:rpp-states")
      [] type = "metros" -> fetch("rppList", "bea:rpp-metros")
      [] type = "state" ->
           IF param = "missing" THEN {ErrorResponse(ep, 400, "INVALID_PARAMS", rl)}
           ELSE fetch("rppOne", "bea:rpp-state")
      [] type = "metro" ->
           IF param = "missing" THEN {ErrorResponse(ep, 400, "INVALID_PARAMS", rl)}
           ELSE fetch("rppOne", "bea:rpp-metro")
      [] OTHER -> {ErrorResponse(ep, 400, "INVALID_PARAMS", rl)}

\* zipParam.split(','): the pieces between the commas, in order
split(s) ==
  LET commas == {i \in 1..Len(s) : s[i] = ","}
      commaAt(k) == CHOOSE i \in commas : Cardinality({j \in commas : j < i}) = k - 1
      n == Cardinality(commas) + 1
  IN [k \in 1..n |-> SubSeq(s, IF k = 1 THEN 1 ELSE commaAt(k - 1) + 1,
                               IF k = n THEN Len(s) ELSE commaAt(k) - 1)]

\* z.trim()
RECURSIVE trim(_)
trim(z) ==
  IF z = <<>> THEN z
  ELSE IF Head(z) = " " THEN trim(Tail(z))
  ELSE IF z[Len(z)] = " " THEN trim(SubSeq(z, 1, Len(z) - 1))
  ELSE z

\* /^\d{5}$/.test(zipCode)
validateZipCode(zipCode) ==
  /\ Len(zipCode) = 5
  /\ \A i \in 1..5 : zipCode[i] \in Digits

\* the rows of the zip_to_cbsa table: the ZIP codes getMetroCodeForZip finds
CrosswalkZips == {<<"9", "0", "2", "1", "0">>, <<"1", "0", "0", "0", "1">>}

\* `zip:${zipCode}` and `state:${normalizedState}`
ZipKey(zipCode) == <<"zip:">> \o zipCode

StateKey(stateCode) == <<"state:">> \o toUpperCase(stateCode)

\* zipCodes.length > 20
MaxZipsPerRequest == 20

\* fetchFairMarketRents(zip) as fetchMultipleFairMarketRents and the handler see it:
\* the rents or a thrown Error, and the accesses made. cachedZips: the ZIP codes with a
\* live row; o: what fetchFMRByCBSA settles with
RentItem(zip, cachedZips, o) ==
  IF ~validateZipCode(zip)
  THEN [zipCode |-> zip, ok |-> FALSE, trace |-> <<>>]
  ELSE LET r == fetchFairMarketRents(HitStore("hud", ZipKey(zip), zip \in cachedZips), TRUE,
                                     ZipKey(zip), zip \in CrosswalkZips, OutcomeOf(o), 0) IN
         [zipCode |-> zip, ok |-> r.ok,
          trace |-> <<"cache">>
                    \o (IF r.hit THEN <<>> ELSE <<"crosswalk">>)
                    \o (IF r.upstream THEN <<"upstream">> ELSE <<>>)
                    \o (IF r.stored THEN <<"cacheWrite">> ELSE <<>>)]

\* fetchFairMarketRentsByState(stateParam): no crosswalk lookup, no features is an Error
RentByState(stateCode, hit, o) ==
  LET r == fetchFairMarketRents(HitStore("hud", StateKey(stateCode), hit), TRUE,
                                StateKey(stateCode), TRUE, OutcomeOf(o), 0) IN
    [ok |-> r.ok,
     trace |-> <<"cache">>
               \o (IF r.upstream THEN <<"upstream">> ELSE <<>>)
               \o (IF r.stored THEN <<"cacheWrite">> ELSE <<>>)]

\* Promise.all over zipCodes.map(...) in fetchMultipleFairMarketRents
RECURSIVE fetchMultipleFairMarketRents(_, _, _)
fetchMultipleFairMarketRents(zipCodes, cachedZips, o) ==
  IF zipCodes = <<>> THEN <<>>
  ELSE <<RentItem(Head(zipCodes), cachedZips, o)>>
       \o fetchMultipleFairMarketRents(Tail(zipCodes), cachedZips, o)

RECURSIVE TraceOf(_)
TraceOf(results) ==
  IF results = <<>> THEN <<>> ELSE Head(results).trace \o TraceOf(Tail(results))

ZipsOf(results) == [i \in 1..Len(results) |-> results[i].zipCode]

\* GET /api/hud: zipParam and stateParam are the raw parameters, <<>> when absent
RentHandler(zipParam, stateParam, metroOnly, includeNearby, cachedZips, stateCached, o) ==
  LET ep == "rent"
      zipCodes == [i \in 1..Len(split(zipParam)) |-> trim(split(zipParam)[i])]
      asked(r) == [r EXCEPT !.zips = zipCodes]
  IN
    IF zipParam = <<>> /\ stateParam = <<>>
    THEN ErrorResponse(ep, 400, "MISSING_PARAMETER", <<>>)
    ELSE IF stateParam # <<>>
    THEN IF ~IsStateCode(toUpperCase(stateParam))
         THEN ErrorResponse(ep, 400, "INVALID_STATE", <<>>)
         ELSE LET r == RentByState(stateParam, stateCached, o) IN
                IF r.ok THEN SuccessResponse(ep, "list", FALSE, r.trace)
                ELSE CaughtResponse(ep, 500, "INTERNAL_ERROR", r.trace,
                                    "Error", "error.message")
    ELSE IF \E i \in 1..Len(zipCodes) : ~validateZipCode(zipCodes[i])
    THEN asked(ErrorResponse(ep, 400, "INVALID_ZIP", <<>>))
    ELSE IF Len(zipCodes) = 1
    THEN IF metroOnly
         THEN IF zipCodes[1] \in CrosswalkZips
              THEN asked(SuccessResponse(ep, "metro", FALSE, <<"crosswalk">>))
              ELSE asked(ErrorResponse(ep, 404, "ZIP_NOT_FOUND", <<"crosswalk">>))
         ELSE LET r == RentItem(zipCodes[1], cachedZips, o) IN
                IF ~r.ok THEN asked(CaughtResponse(ep, 500, "FETCH_ERROR", r.trace,
                                                   "Error", "error.message"))
                ELSE asked([SuccessResponse(ep, "data", FALSE,
                                            r.trace \o (IF includeNearby THEN <<"crosswalk">>
                                                        ELSE <<>>))
                              EXCEPT !.items = zipCodes])
    ELSE IF Len(zipCodes) > MaxZipsPerRequest
    THEN asked(ErrorResponse(ep, 400, "TOO_MANY_ZIPS", <<>>))
    ELSE LET results == fetchMultipleFairMarketRents(zipCodes, cachedZips, o)
             successful == SelectSeq(results, LAMBDA r : r.ok)
             failed == SelectSeq(results, LAMBDA r : ~r.ok)
         IN asked([SuccessResponse(ep, "list", FALSE, TraceOf(results))
                     EXCEPT !.items = ZipsOf(successful), !.errors = ZipsOf(failed)])

\* GET of the location search route: q is the raw query, <<>> when absent; threw: an
\* error reaches the catch block of the handler (searchZipCodes and searchMetros catch
\* their own errors and give no results)
SearchHandler(q, threw) ==
  LET ep == "search"
      query == trim(q)
  IN
    IF query = <<>> \/ Len(query) < 2
    THEN ErrorResponse(ep, 400, "INVALID_QUERY", <<>>)
    ELSE IF threw
    THEN CaughtResponse(ep, 500, "SEARCH_ERROR", <<"crosswalk">>, "Error", "literal")
    ELSE SuccessResponse(ep, "list", FALSE, <<"crosswalk">>)

----------------------------------------------------------------------------
(* The source endpoints and the location search as a state machine: the requests of one
   client *)

MaxBatch == 3

EnergyTypes == {"all", "state", "utility", "utility-state", "other"}

PriceIndexTypes == {"national", "state", "region", "timeseries", "regions", "other"}

PriceParityTypes == {"states", "metros", "state", "metro", "other"}

ParamKinds == {"missing", "valid", "invalid"}

\* the zip values a request lists: two ZIP codes of the crosswalk table (one written with
\* a leading blank), a well-formed ZIP code the table does not have, and two malformed ones
ZipPool == {<<"9", "0", "2", "1", "0">>, <<" ", "1", "0", "0", "0", "1">>,
            <<"0", "0", "0", "0", "0">>, <<"9", "0", "2", "1">>, <<"9", "0", "2", "1", "a">>}

RECURSIVE join(_)
join(zips) ==
  IF Len(zips) = 1 THEN zips[1] ELSE zips[1] \o <<",">> \o join(Tail(zips))

\* the zip parameters: absent, lists of up to MaxBatch distinct values, and one list
\* longer than the handler accepts
ZipParams ==
  {<<>>}
  \cup {join(l) : l \in {s \in UNION {[1..n -> ZipPool] : n \in 1..MaxBatch} :
                           \A i, j \in DOMAIN s : i # j => s[i] # s[j]}}
  \cup {[i \in 1..(6 * (MaxZipsPerRequest + 1) - 1) |->
              IF i % 6 = 0 THEN "," ELSE <<"9", "0", "2", "1", "0">>[i % 6]]}

RouteInit ==
  /\ endpoint \in Endpoints
  /\ response = NoResponse
  /\ RLIdle
  /\ CacheIdle
  /\ FetchIdle
  /\ MetroIdle
  /\ RankIdle
  /\ ConcIdle
  /\ HistIdle

\* the answer r of a request served while the credential of its source (EIA_API_KEY,
\* BEA_API_KEY) was set or not
WithKey(r, keyOk) == [r EXCEPT !.keyOk = keyOk]

\* the head of the energy, price-index and price-parity handlers: checkRateLimit with
\* RATE_LIMITS.heavy. The requests of a behaviour arrive at one instant, within one window
LimiterStage(ep) ==
  checkRateLimit(rateLimitStore, RouteIdentifier[ep], RATE_LIMITS_heavy, now)

\* GET /api/eia?type=...&state=...
EnergyGet(type, stateCode, keyOk, hit, re, rn, rg) ==
  /\ endpoint = "energy"
  /\ response = NoResponse
  /\ rateLimitStore' = LimiterStage("energy").store
  /\ IF ~LimiterStage("energy").result.allowed
     THEN response' = RateLimitedResponse("energy", LimiterStage("energy").result)
     ELSE \E e \in SubSeries("electricity", keyOk, re, 12),
             n \in SubSeries("naturalGas", keyOk, rn, 12),
             g \in SubSeries("gasoline", keyOk, rg, 12) :
            response' \in {WithKey(r, keyOk) : r \in EnergyHandler(type, stateCode, hit, e, n, g)}
  /\ UNCHANGED <<now, rlConfig, rlResult, gWinOpen, gCalls, gWindows, gRejected, endpoint>>
  /\ UNCHANGED <<cacheVars, fetchVars, auxVars>>

\* GET /api/bls?type=...
PriceIndexGet(type, param, hit, resp) ==
  /\ endpoint = "priceIndex"
  /\ response = NoResponse
  /\ rateLimitStore' = LimiterStage("priceIndex").store
  /\ IF ~LimiterStage("priceIndex").result.allowed
     THEN response' = RateLimitedResponse("priceIndex", LimiterStage("priceIndex").result)
     ELSE response' \in PriceIndexHandler(type, param, hit, resp)
  /\ UNCHANGED <<now, rlConfig, rlResult, gWinOpen, gCalls, gWindows, gRejected, endpoint>>
  /\ UNCHANGED <<cacheVars, fetchVars, auxVars>>

\* GET /api/bea?type=...
PriceParityGet(type, param, keyOk, hit, resp) ==
  /\ endpoint = "priceParity"
  /\ response = NoResponse
  /\ rateLimitStore' = LimiterStage("priceParity").store
  /\ IF ~LimiterStage("priceParity").result.allowed
     THEN response' = RateLimitedResponse("priceParity", LimiterStage("priceParity").result)
     ELSE response' \in {WithKey(r, keyOk) : r \in PriceParityHandler(type, param, keyOk, hit, resp)}
  /\ UNCHANGED <<now, rlConfig, rlResult, gWinOpen, gCalls, gWindows, gRejected, endpoint>>
  /\ UNCHANGED <<cacheVars, fetchVars, auxVars>>

\* GET /api/hud?zip=...&state=...
RentGet(zipParam, stateParam, metroOnly, includeNearby, cachedZips, stateCached, resp) ==
  /\ endpoint = "rent"
  /\ response = NoResponse
  /\ \E o \in fetchFMRByCBSA(resp) :
       response' = RentHandler(zipParam, stateParam, metroOnly, includeNearby,
                               cachedZips, stateCached, o)
  /\ UNCHANGED <<rlVars, cacheVars, fetchVars, endpoint, auxVars>>

\* GET /api/location/search?q=...
SearchGet(q, threw) ==
  /\ endpoint = "search"
  /\ response = NoResponse
  /\ response' = SearchHandler(q, threw)
  /\ UNCHANGED <<rlVars, cacheVars, fetchVars, endpoint, auxVars>>

\* the response is sent; the next request of the client arrives
RouteReturn ==
  /\ response # NoResponse
  /\ response' = NoResponse
  /\ UNCHANGED <<rlVars, cacheVars, fetchVars, endpoint, auxVars>>

RouteNext ==
  \/ \E type \in EnergyTypes, stateCode \in StateCodes, keyOk, hit \in BOOLEAN,
        re, rn, rg \in RespKinds :
       EnergyGet(type, stateCode, keyOk, hit, re, rn, rg)
  \/ \E type \in PriceIndexTypes, param \in ParamKinds, hit \in BOOLEAN, resp \in RespKinds :
       PriceIndexGet(type, param, hit, resp)
  \/ \E type \in PriceParityTypes, param \in ParamKinds, keyOk, hit \in BOOLEAN,
        resp \in RespKinds :
       PriceParityGet(type, param, keyOk, hit, resp)
  \/ \E zipParam \in ZipParams, stateParam \in {<<>>, <<"c", "a">>, <<"C", "4">>},
        metroOnly, includeNearby, stateCached \in BOOLEAN,
        cachedZips \in SUBSET {z \in {trim(p) : p \in ZipPool} : validateZipCode(z)},
        resp \in RespKinds :
       RentGet(zipParam, stateParam, metroOnly, includeNearby, cachedZips, stateCached, resp)
  \/ \E q \in {<<>>, <<" ", "9", " ">>, <<"9", "0">>, <<"C", "A">>}, threw \in BOOLEAN :
       SearchGet(q, threw)
  \/ RouteReturn

SpecRoute == RouteInit /\ [][RouteNext]_vars

----------------------------------------------------------------------------
(* lib/api/hud.ts: the crosswalk lookups over table zip_to_cbsa *)

\* .select('cbsa_code, cbsa_name, residential_ratio')
Selected(r) ==
  [cbsa_code |-> r.cbsa_code, cbsa_name |-> r.cbsa_name,
   residential_ratio |-> r.residential_ratio]

\* .order('residential_ratio', { ascending: false }): every sequence of the selected
\* columns of the rows that is descending in residential_ratio. Rows of equal ratio come
\* in any order
RECURSIVE OrderDesc(_)
OrderDesc(rows) ==
  IF rows = {} THEN {<<>>}
  ELSE LET top == {r \in rows : \A q \in rows : q.residential_ratio <= r.residential_ratio}
       IN UNION {{<<p>> \o s : s \in OrderDesc(rows \ {CHOOSE r \in top : Selected(r) = p})} :
                   p \in {Selected(r) : r \in top}}

\* nameParts[k]?.trim() of cbsa_name.split(','), <<>> when there is no such part
NamePart(cbsa_name, k) ==
  IF k <= Len(split(cbsa_name)) THEN trim(split(cbsa_name)[k]) ELSE <<>>

Unknown == <<"U", "n", "k", "n", "o", "w", "n">>

NotFound == [found |-> FALSE, cbsaCode |-> "none", cbsaName |-> <<>>, cityName |-> <<>>,
             stateCode |-> <<>>, residentialRatio |-> 0, isSplitZip |-> FALSE]

CrosswalkResultLast(data) ==
  [found |-> TRUE, cbsaCode |-> data[Len(data)].cbsa_code,
   cbsaName |-> data[Len(data)].cbsa_name,
   cityName |-> IF NamePart(data[Len(data)].cbsa_name, 1) = <<>> THEN Unknown
                ELSE NamePart(data[Len(data)].cbsa_name, 1),
   stateCode |-> NamePart(data[Len(data)].cbsa_name, 2),
   residentialRatio |-> data[Len(data)].residential_ratio,
   isSplitZip |-> Len(data) > 1]

\* the CBSACrosswalkResult built from the first row of data
CrosswalkResult(data) ==
  [found |-> TRUE, cbsaCode |-> data[1].cbsa_code, cbsaName |-> data[1].cbsa_name,
   cityName |-> IF NamePart(data[1].cbsa_name, 1) = <<>> THEN Unknown
                ELSE NamePart(data[1].cbsa_name, 1),
   stateCode |-> NamePart(data[1].cbsa_name, 2),
   residentialRatio |-> data[1].residential_ratio,
   isSplitZip |-> Len(data) > 1]

\* getMetroCodeForZip(zipCode): the results it can return; dbError: the query answers
\* with an error
getMetroCodeForZip(table, dbError, zipCode) ==
  IF dbError THEN {NotFound}
  ELSE LET rows == {r \in table : r.zip_code = zipCode} IN
         IF rows = {} THEN {NotFound}
         ELSE {CrosswalkResult(data) : data \in OrderDesc(rows)}

\* cbsa_name LIKE '%pattern%': pattern occurs in name as a contiguous piece
Like(name, pattern) ==
  \E i \in 0..(Len(name) - Len(pattern)) : SubSeq(name, i + 1, i + Len(pattern)) = pattern

\* .limit(n)
Limit(data, n) == SubSeq(data, 1, IF Len(data) < n THEN Len(data) ELSE n)

\* the loop over data: keep the first row of each cbsa_code while unique.length < limit
RECURSIVE UniqueMetros(_, _, _)
UniqueMetros(data, unique, limit) ==
  IF data = <<>> THEN unique
  ELSE IF (\A k \in DOMAIN unique : unique[k].cbsaCode # Head(data).cbsa_code)
          /\ Len(unique) < limit
  THEN UniqueMetros(Tail(data),
                    Append(unique, [cbsaCode |-> Head(data).cbsa_code,
                                    cbsaName |-> Head(data).cbsa_name,
                                    stateCode |-> NamePart(Head(data).cbsa_name, 2),
                                    residentialRatio |-> Head(data).residential_ratio]),
                    limit)
  ELSE UniqueMetros(Tail(data), unique, limit)

\* the rows the second query of getNearbyMetros selects, before .order and .limit
NearbyRows(table, crosswalk) ==
  {r \in table : /\ Like(r.cbsa_name, crosswalk.stateCode)
                 /\ r.cbsa_code # crosswalk.cbsaCode}

\* getNearbyMetros(zipCode, limit) once getMetroCodeForZip gave crosswalk: the lists it
\* can return; dbError: the second query answers with an error
getNearbyMetros(table, dbError, crosswalk, limit) ==
  IF ~crosswalk.found \/ dbError THEN {<<>>}
  ELSE {UniqueMetros(Limit(data, limit * 3), <<>>, limit) :
          data \in OrderDesc(NearbyRows(table, crosswalk))}

----------------------------------------------------------------------------
(* The crosswalk lookups as a state machine over a table fixed at start *)

AskedChoices == [Metros -> {0} \cup Ratios]

FillChoices == [Metros -> {0, 1, MaxFill}]

LookupZips == {AskedZip, UnmappedZip, <<"9", "0", "0", "0", "1">>}

Limits == {1, 2}

MetroInit ==
  /\ zip_to_cbsa \in {CrosswalkTable(asked, fill) : asked \in AskedChoices, fill \in FillChoices}
  /\ lastMetro = NoMetro
  /\ RLIdle
  /\ CacheIdle
  /\ FetchIdle
  /\ RouteIdle
  /\ RankIdle
  /\ ConcIdle
  /\ HistIdle

\* getMetroInfoForZip(zipCode) / getMetroCodeForZip(zipCode)
MetroLookup(zipCode, dbError) ==
  /\ lastMetro = NoMetro
  /\ \E r \in getMetroCodeForZip(zip_to_cbsa, dbError, zipCode) :
       lastMetro' = [op |-> "resolve", zipCode |-> zipCode, dbError |-> dbError,
                     limit |-> 0, nearby |-> <<>>] @@ r
  /\ UNCHANGED <<zip_to_cbsa, rlVars, cacheVars, fetchVars, routeVars, rankVars, concVars, histVars>>

\* getNearbyMetros(zipCode, limit)
MetroNearby(zipCode, limit, dbError) ==
  /\ lastMetro = NoMetro
  /\ \E r \in getMetroCodeForZip(zip_to_cbsa, FALSE, zipCode) :
       \E list \in getNearbyMetros(zip_to_cbsa, dbError, r, limit) :
         lastMetro' = [op |-> "nearby", zipCode |-> zipCode, dbError |-> dbError,
                       limit |-> limit, nearby |-> list] @@ r
  /\ UNCHANGED <<zip_to_cbsa, rlVars, cacheVars, fetchVars, routeVars, rankVars, concVars, histVars>>

\* the caller has the result
MetroReturn ==
  /\ lastMetro # NoMetro
  /\ lastMetro' = NoMetro
  /\ UNCHANGED <<zip_to_cbsa, rlVars, cacheVars, fetchVars, routeVars, rankVars, concVars, histVars>>

MetroNext ==
  \/ \E zipCode \in LookupZips, dbError \in BOOLEAN : MetroLookup(zipCode, dbError)
  \/ \E zipCode \in LookupZips, limit \in Limits, dbError \in BOOLEAN :
       MetroNearby(zipCode, limit, dbError)
  \/ MetroReturn

SpecMetro == MetroInit /\ [][MetroNext]_vars

----------------------------------------------------------------------------
(* lib/api/bea.ts: the ranking of a batch of regional price parities *)

MaxEntries == 4

\* GeoFips of the i-th geography of the response, in the order parseBEAResponse meets them
GeoIds == <<"01000", "06000", "36000", "48000", "53000">>

\* the ALL_ITEMS value of a geography; Undefined: the response has no such line for it
Overalls == {Undefined, 0, 95, 100, 110}

\* the values of rppMap in insertion order
RppMaps ==
  UNION {{[i \in 1..n |-> [geoFips |-> GeoIds[i], overall |-> o[i], rank |-> Undefined]] :
            o \in [1..n -> Overalls]} : n \in 0..MaxEntries}

\* rppMap.forEach((rpp) => { if (rpp.overall !== undefined) results.push(rpp) })
CompleteRecords(rppMap) == SelectSeq(rppMap, LAMBDA rpp : rpp.overall # Undefined)

PrecedesStrict(a, b) == a.overall > b.overall

\* (a, b) => b.overall - a.overall is not positive: a stays before b
Precedes(a, b) == b.overall - a.overall <= 0

\* Array.prototype.sort is stable: x goes behind every element that stays before it
RECURSIVE InsertSorted(_, _)
InsertSorted(sorted, x) ==
  IF sorted = <<>> THEN <<x>>
  ELSE IF Precedes(Head(sorted), x) THEN <<Head(sorted)>> \o InsertSorted(Tail(sorted), x)
  ELSE <<x>> \o sorted

RECURSIVE SortByOverallDesc(_)
SortByOverallDesc(results) ==
  IF results = <<>> THEN <<>>
  ELSE InsertSorted(SortByOverallDesc(SubSeq(results, 1, Len(results) - 1)),
                    results[Len(results)])

\* results.forEach((rpp, index) => { rpp.rank = index + 1 })
AddRanks(results) == [i \in 1..Len(results) |-> [results[i] EXCEPT !.rank = i]]

\* the fetchFn of getRPPAllStates and getRPPAllMetros after parseBEAResponse
RankBatch(rppMap) == AddRanks(SortByOverallDesc(CompleteRecords(rppMap)))

RankInit ==
  /\ rppBatch \in RppMaps
  /\ ranked = NoBatch
  /\ RLIdle
  /\ CacheIdle
  /\ FetchIdle
  /\ RouteIdle
  /\ MetroIdle
  /\ ConcIdle
  /\ HistIdle

\* getRPPAllStates() ranks the batch it parsed
RankStates ==
  /\ ranked = NoBatch
  /\ ranked' = [op |-> "rank", results |-> RankBatch(rppBatch)]
  /\ UNCHANGED <<rppBatch, rlVars, cacheVars, fetchVars, routeVars, metroVars, concVars, histVars>>

\* (a, b) => (b.data.overall || 0) - (a.data.overall || 0) of processData
RECURSIVE InsertByCol(_, _)
InsertByCol(sorted, x) ==
  IF sorted = <<>> THEN <<x>>
  ELSE IF (IF x.overall = 0 THEN 0 ELSE x.overall)
          - (IF Head(sorted).overall = 0 THEN 0 ELSE Head(sorted).overall) <= 0
  THEN <<Head(sorted)>> \o InsertByCol(Tail(sorted), x)
  ELSE <<x>> \o sorted

RECURSIVE SortByCol(_)
SortByCol(stateArray) ==
  IF stateArray = <<>> THEN <<>>
  ELSE InsertByCol(SortByCol(SubSeq(stateArray, 1, Len(stateArray) - 1)),
                   stateArray[Len(stateArray)])

\* processData of scripts/generate-state-col-data.ts on the same rows
ProcessData ==
  /\ ranked = NoBatch
  /\ ranked' = [op |-> "script", results |-> AddRanks(SortByCol(CompleteRecords(rppBatch)))]
  /\ UNCHANGED <<rppBatch, rlVars, cacheVars, fetchVars, routeVars, metroVars, concVars, histVars>>

RankNext ==
  \/ RankStates
  \/ ProcessData

SpecRank == RankInit /\ [][RankNext]_vars

----------------------------------------------------------------------------
(* C1: once a set of (S,K,P) has succeeded, a get of (S,K) made before the   *)
(* entry's expires_at, with no later set or invalidate of the key and the    *)
(* store reachable, returns P; a fetch through withCache returns P with      *)
(* cached = true and without calling the upstream.                           *)
C1_SetThenGet ==
  LET g == lastOp.seen IN
    (/\ lastOp.op \in {"get", "apiGet", "withCache", "hudFetch"}
     /\ lastOp.storeOk
     /\ g.set
     /\ dbNow < g.expires_at) =>
        /\ lastOp.ok
        /\ lastOp.hit
        /\ lastOp.data = g.data
        /\ lastOp.op = "withCache" => (lastOp.cached /\ ~lastOp.upstream)

C1_Witness ==
  /\ lastOp.op = "withCache"
  /\ lastOp.cached
  /\ lastOp.seen.set
  /\ lastOp.data = lastOp.seen.data
  /\ lastOp.fetched \in Payloads \ {lastOp.data}
  /\ dbNow > 0
  /\ dbNow < lastOp.seen.expires_at

(* C2: a get of (S,K) made after the entry's expires_at returns none, whether *)
(* or not the sweep has removed the row, and the fetcher goes on as on a miss *)
(* (withCache calls the upstream and reports cached = false).                 *)
C2_ExpiredIsMiss ==
  LET g == lastOp.seen IN
    (/\ lastOp.op \in {"get", "apiGet", "withCache", "hudFetch"}
     /\ g.set
     /\ dbNow > g.expires_at) =>
        /\ ~lastOp.hit
        /\ lastOp.op \in {"get", "apiGet"} => lastOp.data = Null
        /\ lastOp.op = "withCache" =>
             /\ ~lastOp.cached
             /\ lastOp.upstream
             /\ lastOp.fetched # Thrown => (lastOp.ok /\ lastOp.data = lastOp.fetched)
        /\ lastOp.op = "hudFetch" =>
             /\ lastOp.found => lastOp.upstream
             /\ (lastOp.found /\ lastOp.fetched \in Payloads) =>
                  (lastOp.ok /\ lastOp.data = lastOp.fetched)

C2_Witness ==
  /\ lastOp.op = "get"
  /\ lastOp.storeOk
  /\ lastOp.data = Null
  /\ lastOp.seen.set
  /\ dbNow > lastOp.seen.expires_at
  /\ \E r \in SelectRows(api_cache, cacheKey.source, cacheKey.location_key) :
       r.data = lastOp.seen.data /\ r.expires_at = lastOp.seen.expires_at

(* C3: two successive sets of the same (source, key) with payloads P1 then P2 *)
(* leave exactly one entry for the key, holding P2, and a following get       *)
(* within the TTL returns P2 and never P1.                                    *)
C3_UpsertOverwrites ==
  LET g == lastOp.seen
      rows == SelectRows(api_cache, cacheKey.source, cacheKey.location_key) IN
    /\ Cardinality(rows) <= 1
    /\ (lastOp.op \in {"set", "write"} /\ lastOp.ok /\ gLastSet[cacheKey].prev # Null) =>
          rows = {[source |-> cacheKey.source, location_key |-> cacheKey.location_key,
                   data |-> lastOp.data, expires_at |-> gLastSet[cacheKey].expires_at]}
    /\ (/\ lastOp.op \in {"get", "apiGet", "withCache"}
        /\ lastOp.storeOk
        /\ g.prev # Null
        /\ g.prev # g.data
        /\ dbNow < g.expires_at) =>
          (lastOp.data = g.data /\ lastOp.data # g.prev)

C3_Witness ==
  /\ lastOp.op = "get"
  /\ lastOp.seen.prev = "P1"
  /\ lastOp.seen.data = "P2"
  /\ lastOp.data = "P2"
  /\ dbNow < lastOp.seen.expires_at
  /\ Cardinality(api_cache) = 1

----------------------------------------------------------------------------
(* C4: with maxRequests = N and one identifier, the first N calls inside   *)
(* one window are allowed, every further call inside it is rejected, and   *)
(* the first call after the window has elapsed is allowed and opens a      *)
(* fresh bucket with count = 1 and resetTime = now + windowMs.             *)
C4_FixedWindow ==
  rlResult.identifier \in Identifiers =>
    LET id == rlResult.identifier IN
      /\ rlResult.allowed = (gCalls[id] <= rlConfig.maxRequests)
      /\ (gCalls[id] = 1 /\ gWinOpen[id] = rlResult.at) =>
            /\ id \in DOMAIN rateLimitStore
            /\ rateLimitStore[id] = [count |-> 1,
                                     resetTime |-> rlResult.at + rlConfig.windowMs]
            /\ rlResult.resetTime = rlResult.at + rlConfig.windowMs

\* a call has been rejected in one window and a later call opened a second window
C4_Witness ==
  /\ rlResult.identifier \in Identifiers
  /\ gRejected[rlResult.identifier]
  /\ gWindows[rlResult.identifier] = 2
  /\ gCalls[rlResult.identifier] = 1
  /\ rlResult.allowed

(* C5: every rejected result carries retryAfter = ceil((resetTime - now) / *)
(* 1000), and that value is strictly positive, so that every RateLimited   *)
(* response carries a Retry-After header.                                  *)
C5_RetryAfterPositive ==
  (rlResult.identifier \in Identifiers /\ ~rlResult.allowed) =>
    /\ rlResult.retryAfter = MathCeilDiv(rlResult.resetTime - rlResult.at, 1000)
    /\ rlResult.retryAfter > 0
    /\ HasRetryAfterHeader(rlResult)

(* C8: while the store fails on every query and the upstream answers, a fetch *)
(* succeeds with the upstream's fresh data and cached = false: the read error *)
(* counts as a miss and the failed write does not fail the fetch.             *)
C8_StoreDownStillServes ==
  /\ (lastOp.op = "withCache" /\ ~lastOp.storeOk /\ lastOp.fetched # Thrown) =>
        /\ lastOp.ok
        /\ lastOp.upstream
        /\ lastOp.data = lastOp.fetched
        /\ ~lastOp.cached
  /\ (/\ lastOp.op = "hudFetch"
      /\ ~lastOp.storeOk
      /\ lastOp.found
      /\ lastOp.fetched \in Payloads) =>
        /\ lastOp.ok
        /\ lastOp.upstream
        /\ lastOp.data = lastOp.fetched
        /\ ~lastOp.hit

C8_Witness ==
  /\ lastOp.op = "withCache"
  /\ ~lastOp.storeOk
  /\ lastOp.ok
  /\ lastOp.data = "P2"
  /\ ~lastOp.cached
  /\ lastOp.seen.set
  /\ lastOp.seen.data = "P1"
  /\ dbNow < lastOp.seen.expires_at
  /\ api_cache # {}

(* C7: for every fetcher and every sub-series, a non-2xx response, a timeout  *)
(* or an unparseable payload makes the fetch raise UpstreamError; it never    *)
(* returns an empty or zero-filled result instead.                            *)
C7_FailureRaisesUpstreamError ==
  (lastFetch.op = "fetch" /\ lastFetch.resp \in {"non2xx", "timeout", "unparseable"}) =>
     /\ lastFetch.outcome.status = "rejected"
     /\ lastFetch.outcome.error = "UPSTREAM_ERROR"

(* C9: an energy fetch for one state returns a non-null record exactly when   *)
(* the electricity price or the gasoline price of the state was obtained; a   *)
(* missing or failed natural-gas series leaves naturalGasPrice undefined (not *)
(* zero) and does not make the fetch fail.                                    *)
C9_EnergyPartialResult ==
  LET obtained(a) == /\ lastEnergy.keyOk
                     /\ a.resp = "ok"
                     /\ lastEnergy.stateCode \in {<<"C", "A">>, <<"c", "a">>}
      wellFormed == lastEnergy.stateCode \in {<<"C", "A">>, <<"c", "a">>, <<"T", "X">>}
  IN
    lastEnergy.op = "energy" =>
      /\ lastEnergy.status = "fulfilled" =>
           /\ lastEnergy.isNull <=>
                ~(obtained(lastEnergy.electricity) \/ obtained(lastEnergy.gasoline))
           /\ ~lastEnergy.isNull =>
                /\ lastEnergy.naturalGasPrice =
                     IF obtained(lastEnergy.naturalGas)
                     THEN lastEnergy.naturalGas.price ELSE Undefined
                /\ lastEnergy.electricityPrice =
                     IF obtained(lastEnergy.electricity)
                     THEN lastEnergy.electricity.price ELSE Undefined
                /\ lastEnergy.gasolinePrice =
                     IF obtained(lastEnergy.gasoline)
                     THEN lastEnergy.gasoline.price ELSE Undefined
      /\ lastEnergy.status = "rejected" => ~wellFormed
      /\ lastEnergy.status = "pending" =>
           "timeout" \in {lastEnergy.electricity.resp, lastEnergy.naturalGas.resp,
                          lastEnergy.gasoline.resp}

C9_Witness ==
  /\ lastEnergy.op = "energy"
  /\ lastEnergy.status = "fulfilled"
  /\ ~lastEnergy.isNull
  /\ lastEnergy.electricity.resp = "non2xx"
  /\ lastEnergy.electricityPrice = Undefined
  /\ lastEnergy.gasoline.resp = "ok"
  /\ lastEnergy.gasolinePrice = 0
  /\ lastEnergy.naturalGas.resp = "unparseable"
  /\ lastEnergy.naturalGasPrice = Undefined

\* C6: on every source endpoint the rate limiter is consulted before any cache or upstream
\* access: in the accesses of a handled request, every cache read and every upstream call
\* comes after the limiter check, and a request answered RATE_LIMITED made no other access
C6_LimiterBeforeAccess ==
  response.endpoint \in Endpoints =>
    /\ \A i \in DOMAIN response.trace :
         response.trace[i] \in {"cache", "upstream"} =>
           \E j \in 1..(i - 1) : response.trace[j] = "ratelimit"
    /\ response.code = "RATE_LIMITED" =>
         /\ response.status = 429
         /\ response.trace = <<"ratelimit">>

\* C10: a batch rent request (two to MaxZipsPerRequest ZIP codes) is answered success = true
\* with every listed ZIP code either among the data or among the per-item errors, a
\* malformed ZIP code being among the errors
C10_BatchPerItemErrors ==
  (/\ response.endpoint = "rent"
   /\ Len(response.zips) >= 2
   /\ Len(response.zips) <= MaxZipsPerRequest) =>
    /\ response.success
    /\ Len(response.items) + Len(response.errors) = Len(response.zips)
    /\ \A i \in DOMAIN response.zips :
         ~validateZipCode(response.zips[i]) =>
           \E j \in DOMAIN response.errors : response.errors[j] = response.zips[i]

\* C11: a crosswalk lookup that the table answers returns a record of the ZIP code whose
\* residentialRatio is the maximum among the records of that ZIP code (none when it has no
\* record), and isSplitZip is true exactly when the ZIP code has more than one record
C11_PrimaryIsMaxRatio ==
  LET rows == {r \in zip_to_cbsa : r.zip_code = lastMetro.zipCode} IN
    (lastMetro.op = "resolve" /\ ~lastMetro.dbError) =>
      /\ lastMetro.found <=> rows # {}
      /\ lastMetro.found =>
           /\ \E r \in rows : /\ r.cbsa_code = lastMetro.cbsaCode
                              /\ r.cbsa_name = lastMetro.cbsaName
                              /\ r.residential_ratio = lastMetro.residentialRatio
           /\ \A q \in rows : q.residential_ratio <= lastMetro.residentialRatio
      /\ lastMetro.isSplitZip <=> Cardinality(rows) > 1

\* a ZIP code with rows of ratio 7 and 3 resolved to the row of ratio 7, reported split
C11_Witness ==
  /\ lastMetro.op = "resolve"
  /\ lastMetro.zipCode = AskedZip
  /\ {r.residential_ratio : r \in {q \in zip_to_cbsa : q.zip_code = AskedZip}} = {3, 7}
  /\ lastMetro.found
  /\ lastMetro.residentialRatio = 7
  /\ lastMetro.isSplitZip

\* C12: the ranks of a price-parity batch are the 1-based positions after a stable sort by
\* overall descending: the batch holds every geography that has an overall value exactly
\* once, the ranks are a permutation of 1..n, a strictly higher overall has a smaller rank,
\* and geographies of equal overall keep their input order
C12_RankIsStableSortPosition ==
  LET out == ranked.results
      inp == {i \in DOMAIN rppBatch : rppBatch[i].overall # Undefined}
      rankOf(i) == (CHOOSE k \in DOMAIN out : out[k].geoFips = rppBatch[i].geoFips)
  IN ranked.op # "none" =>
       /\ Len(out) = Cardinality(inp)
       /\ \A i \in inp : \E k \in DOMAIN out : /\ out[k].geoFips = rppBatch[i].geoFips
                                               /\ out[k].overall = rppBatch[i].overall
       /\ {out[k].rank : k \in DOMAIN out} = 1..Len(out)
       /\ \A k \in DOMAIN out : out[k].rank = k
       /\ \A i, j \in inp :
            /\ rppBatch[i].overall > rppBatch[j].overall => out[rankOf(i)].rank < out[rankOf(j)].rank
            /\ (rppBatch[i].overall = rppBatch[j].overall /\ i < j) =>
                 out[rankOf(i)].rank < out[rankOf(j)].rank

\* overall [110, 95, 100] got ranks [1, 3, 2]
C12_Witness ==
  /\ ranked.op = "rank"
  /\ Len(rppBatch) = 3
  /\ <<rppBatch[1].overall, rppBatch[2].overall, rppBatch[3].overall>> = <<110, 95, 100>>
  /\ Len(ranked.results) = 3
  /\ ranked.results[1] = [geoFips |-> GeoIds[1], overall |-> 110, rank |-> 1]
  /\ ranked.results[2] = [geoFips |-> GeoIds[3], overall |-> 100, rank |-> 2]
  /\ ranked.results[3] = [geoFips |-> GeoIds[2], overall |-> 95, rank |-> 3]

\* C13: a single-ZIP rent request for a well-formed ZIP code without crosswalk record, whose
\* handler asked the crosswalk table and answered with an error, is answered not-found
\* (status 404), not with a fetch, upstream or internal error
C13_UnmappedZipIsNotFound ==
  (/\ response.endpoint = "rent"
   /\ Len(response.zips) = 1
   /\ validateZipCode(response.zips[1])
   /\ response.zips[1] \notin CrosswalkZips
   /\ \E i \in DOMAIN response.trace : response.trace[i] = "crosswalk"
   /\ ~response.success) =>
    /\ response.status = 404
    /\ response.code \in {"NOT_FOUND", "ZIP_NOT_FOUND"}

\* C14: the list getNearbyMetros returns when both queries answer is the first `limit`
\* entries of: the rows of the primary metro's state without the primary metro's code, one
\* entry per metro code carrying its highest ratio, by ratio descending. It has no code
\* twice, not the primary metro, and exactly min(limit, number of eligible codes) entries
C14_NearbyIsTopOfState ==
  LET out == lastMetro.nearby
      eligible == {r \in zip_to_cbsa : /\ NamePart(r.cbsa_name, 2) = lastMetro.stateCode
                                       /\ r.cbsa_code # lastMetro.cbsaCode}
      codes == {r.cbsa_code : r \in eligible}
      best(c) == CHOOSE x \in {r.residential_ratio : r \in {q \in eligible : q.cbsa_code = c}} :
                   \A r \in eligible : r.cbsa_code = c => r.residential_ratio <= x
      inOut(c) == \E k \in DOMAIN out : out[k].cbsaCode = c
  IN (lastMetro.op = "nearby" /\ ~lastMetro.dbError /\ lastMetro.found) =>
       /\ \A j, k \in DOMAIN out : j # k => out[j].cbsaCode # out[k].cbsaCode
       /\ \A k \in DOMAIN out : /\ out[k].cbsaCode \in codes
                                /\ out[k].residentialRatio = best(out[k].cbsaCode)
       /\ \A j, k \in DOMAIN out : j < k => out[j].residentialRatio >= out[k].residentialRatio
       /\ Len(out) = IF lastMetro.limit < Cardinality(codes) THEN lastMetro.limit
                     ELSE Cardinality(codes)
       /\ \A c \in codes : ~inOut(c) => \A k \in DOMAIN out : best(c) <= out[k].residentialRatio

C16_ClosedErrorCodes ==
  (response.status # 0 /\ ~response.success) =>
    response.code \in {"INVALID_PARAMS", "NOT_FOUND", "RATE_LIMITED", "UPSTREAM_ERROR",
                       "CACHE_ERROR", "INTERNAL_ERROR"}

\* C17: every error a handler catches that is not a typed APIError is answered with
\* status 500 and code InternalError, with a message written in the handler and not
\* taken from the error.
C17_UntypedIsGenericInternal ==
  response.caught \notin {"none", "APIError"} =>
    /\ response.status = 500
    /\ response.code = "INTERNAL_ERROR"
    /\ response.message = "literal"

\* C18: a request to the energy or the price-parity endpoint that gets past the limiter
\* and the parameter checks and is not served from the cache, made while the credential
\* of that source is absent, is answered with status 500 and code InternalError.
C18_NoCredentialIsInternalError ==
  (/\ response.endpoint \in {"energy", "priceParity"}
   /\ ~response.keyOk
   /\ ~response.cached
   /\ response.code \notin {"RATE_LIMITED", "INVALID_PARAMS"}) =>
    /\ response.status = 500
    /\ response.code = "INTERNAL_ERROR"
    /\ ~response.success

\* C19: however the reads, upstream fetches and writes of the concurrent requests for one
\* (source, locationKey) interleave, the store holds at most one row for the key, and
\* once every request has finished and at least one write reached the store, a get of the
\* key returns a payload that one of the requests wrote.
C19_RacingWritesLeaveOneEntry ==
  LET rows == SelectRows(api_cache, cacheKey.source, cacheKey.location_key)
      writers == {r \in Requests : requests[r].wrote}
  IN
    /\ Cardinality(rows) <= 1
    /\ ((\A r \in Requests : requests[r].pc = "done") /\ writers # {}) =>
         /\ ReadFor(api_cache, cacheKey, dbNow).hit
         /\ ReadFor(api_cache, cacheKey, dbNow).data \in {requests[r].data : r \in writers}

\* two requests both missed, fetched different payloads and both wrote
C19_Witness ==
  /\ \A r \in Requests : requests[r].pc = "done" /\ requests[r].wrote
  /\ \E r1, r2 \in Requests : requests[r1].data # requests[r2].data
  /\ Cardinality(SelectRows(api_cache, cacheKey.source, cacheKey.location_key)) = 1

\* C20: a fetcher whose cache read finds a live row returns the payload of that row
\* without calling the upstream and, for rent, without looking up the crosswalk; a
\* fetcher that missed calls its upstream once, and whether the call succeeds or fails
\* it is never called a second time: a finished request takes no further step.
C20_HitSkipsUpstreamMissTriesOnce ==
  [][\A r \in Requests :
       LET live == {x \in SelectRows(api_cache, cacheKey.source, cacheKey.location_key) :
                      x.expires_at > dbNow}
       IN
         /\ (requests[r].pc = "start" /\ requests'[r].pc # "start" /\ live # {}) =>
              /\ requests'[r].pc = "done"
              /\ requests'[r].data \in {x.data : x \in live}
              /\ requests'[r].upstream = 0
              /\ requests'[r].resolver = 0
         /\ (requests[r].pc = "start" /\ requests'[r].pc # "start" /\ live = {}) =>
              requests'[r].pc \in {"resolving", "fetching"}
         /\ (requests[r].pc = "fetching" /\ requests'[r].pc # "fetching") =>
              requests'[r].upstream = 1
         /\ requests'[r].upstream <= 1
         /\ requests'[r].resolver <= 1
         /\ requests[r].pc = "done" => requests'[r] = requests[r]]_vars

\* a rent request missed, looked up the crosswalk, fetched once and wrote; the other
\* request then hit the row and made no call
C20_Witness ==
  /\ cacheKey.source = "hud"
  /\ \E r1, r2 \in Requests :
       /\ requests[r1].pc = "done" /\ requests[r1].wrote
       /\ requests[r1].upstream = 1 /\ requests[r1].resolver = 1
       /\ requests[r2].pc = "done" /\ requests[r2].cached
       /\ requests[r2].upstream = 0 /\ requests[r2].resolver = 0
       /\ requests[r2].data = requests[r1].data

\* C21: every request that reaches a handler is answered: no upstream call waits without
\* bound, so the handler never stays on a promise that does not settle.
C21_EveryRequestAnswered ==
  response.endpoint \in Endpoints => response.status # 0

\* C22: in a single-state and in an all-states energy fetch, when exactly one of the
\* three series fails (a non-2xx or an unparseable answer) and the other two answer, the
\* fetch as a whole does not fail.
C22_OneSeriesFailureIsTolerated ==
  LET failed(a) == IF a.resp \in {"non2xx", "unparseable"} THEN 1 ELSE 0
      answered(a) == a.resp \in {"ok", "empty", "non2xx", "unparseable"}
  IN
    (/\ lastEnergy.op \in {"energy", "energyAll"}
     /\ lastEnergy.keyOk
     /\ lastEnergy.op = "energy" => lastEnergy.stateCode \in {<<"C", "A">>, <<"c", "a">>, <<"T", "X">>}
     /\ answered(lastEnergy.electricity)
     /\ answered(lastEnergy.naturalGas)
     /\ answered(lastEnergy.gasoline)
     /\ failed(lastEnergy.electricity) + failed(lastEnergy.naturalGas)
          + failed(lastEnergy.gasoline) = 1) =>
      lastEnergy.status = "fulfilled"

\* C23: a price-parity query that finds no rows for the year asked queries the year
\* before, once: it succeeds when that year has rows and fails when it has none either,
\* and no other year is queried.
C23_RetriesOnePriorYear ==
  (lastFetch.op = "rpp" /\ lastFetch.resp = "empty") =>
    /\ lastFetch.years = <<0, -1>>
    /\ lastFetch.prior = "ok" => lastFetch.outcome.status = "fulfilled"
    /\ lastFetch.prior = "empty" => lastFetch.outcome.status = "rejected"

\* C24: for every caller's identifier, with limit maxRequests per windowMs,
\* the allowed calls inside any span of time shorter than windowMs are at most
\* 2 * maxRequests, whatever calls and sweeps came before.
C24_AtMostTwiceTheLimit ==
  \A c \in Callers :
    \A i \in DOMAIN limiter.allowedAt[c] :
      Cardinality({j \in DOMAIN limiter.allowedAt[c] :
                     /\ j >= i
                     /\ limiter.allowedAt[c][j] - limiter.allowedAt[c][i]
                          < rlConfig.windowMs})
        <= 2 * rlConfig.maxRequests

\* a burst over the boundary of two windows: more allowed calls than
\* maxRequests inside a span shorter than the window
C24_Witness ==
  \E c \in Callers :
    LET times == limiter.allowedAt[c]
    IN /\ rlConfig.maxRequests = 2
       /\ Len(times) >= 3
       /\ times[Len(times)] - times[Len(times) - 2] < rlConfig.windowMs
       /\ times[Len(times)] - times[Len(times) - 2] > 0

\* C25: for every sequence of calls on one identifier with one config, the
\* limiter (reject when the stored count >= maxRequests, without counting the
\* call) answers as the limiter that counts first and rejects when the count
\* is above maxRequests: the same allowed, the same remaining when allowed,
\* the same retryAfter when rejected.
C25_AgreesWithCountFirst ==
  limiter.last = "check" =>
    /\ rlResult.allowed = limiter.refResult.allowed
    /\ rlResult.allowed => rlResult.remaining = limiter.refResult.remaining
    /\ ~rlResult.allowed => rlResult.retryAfter = limiter.refResult.retryAfter

\* a call answered after the two stored counts have parted
C25_Witness ==
  /\ limiter.last = "check"
  /\ ~rlResult.allowed
  /\ rlResult.identifier \in DOMAIN rateLimitStore
  /\ limiter.ref[rlResult.identifier].count
       > rateLimitStore[rlResult.identifier].count + 1

\* C26: the periodic sweep removes exactly the buckets with resetTime < now
\* and leaves count and resetTime of every other bucket as they were; and
\* every checkRateLimit result is the one the same calls give on a store that
\* is never swept.
C26_SweepChangesNoResult ==
  /\ limiter.last = "sweep" =>
       /\ DOMAIN rateLimitStore
            = {k \in DOMAIN limiter.before : ~(limiter.before[k].resetTime < now)}
       /\ \A k \in DOMAIN rateLimitStore : rateLimitStore[k] = limiter.before[k]
  /\ limiter.last = "check" =>
       /\ rlResult.allowed = limiter.unsweptResult.allowed
       /\ rlResult.remaining = limiter.unsweptResult.remaining
       /\ rlResult.resetTime = limiter.unsweptResult.resetTime
       /\ rlResult.retryAfter = limiter.unsweptResult.retryAfter

\* a call that opens a window after a sweep has removed a bucket that the
\* never-swept store still holds
C26_Witness ==
  /\ limiter.last = "check"
  /\ rlResult.at = rlResult.resetTime - rlConfig.windowMs
  /\ rlResult.remaining = rlConfig.maxRequests - 1
  /\ DOMAIN rateLimitStore # DOMAIN limiter.unswept

\* C30: the results of checkRateLimit for one identifier depend on the calls
\* made with that identifier only: allowed, remaining and resetTime are those
\* the same caller gets from a store that no other caller touches.
C30_OtherIdentifiersDoNotInterfere ==
  limiter.last = "check" =>
    /\ rlResult.allowed = limiter.soloResult.allowed
    /\ rlResult.remaining = limiter.soloResult.remaining
    /\ rlResult.resetTime = limiter.soloResult.resetTime

\* a call rejected while the other identifier has a running window of its own
C30_Witness ==
  /\ limiter.last = "check"
  /\ ~rlResult.allowed
  /\ \E k \in DOMAIN rateLimitStore :
       /\ k # rlResult.identifier
       /\ rateLimitStore[k].resetTime >= now
       /\ rateLimitStore[k].resetTime # rateLimitStore[rlResult.identifier].resetTime

\* C27: a sweep of the cache that reaches the store deletes exactly the rows
\* with expires_at < now and returns how many they were; every row a get
\* would still return is unchanged, and no get, of either cache module, now
\* or later, returns anything else than it would have without the sweep.
C27_SweepDeletesOnlyExpired ==
  [][(lastOp'.op = "sweep" /\ storeUp) =>
       /\ api_cache' = {r \in api_cache : ~(r.expires_at < dbNow)}
       /\ lastOp'.count = Cardinality({r \in api_cache : r.expires_at < dbNow})
       /\ \A r \in api_cache : r.expires_at > dbNow => r \in api_cache'
       /\ \A k \in CacheKeys : \A t \in dbNow .. MaxDay :
            /\ getCachedData(api_cache', storeUp, k.source, k.location_key, t)
                 = getCachedData(api_cache, storeUp, k.source, k.location_key, t)
            /\ apiGetCachedData(api_cache', storeUp, k.source, k.location_key, t)
                 = apiGetCachedData(api_cache, storeUp, k.source, k.location_key, t)]_vars

\* a sweep has deleted a row and left others: one that a get returns and one
\* that expires at this very moment
C27_Witness ==
  /\ lastOp.op = "sweep"
  /\ lastOp.count >= 1
  /\ \E r \in api_cache : r.expires_at > dbNow
  /\ \E r \in api_cache : r.expires_at = dbNow

\* C28: a set with a null payload writes nothing and leaves the store as it
\* is (both cache modules); a fetch through the cache whose result is null
\* issues no write, so no row of the store or on its way to it has a null
\* payload, and the same request made next goes to the upstream again.
C28_NullIsNeverStored ==
  [][/\ (lastOp'.op = "set" /\ lastOp'.data = Null) =>
          (api_cache' = api_cache /\ ~lastOp'.ok)
     /\ (lastOp'.op \in {"withCache", "hudFetch"} /\ lastOp'.upstream
           /\ lastOp'.fetched = Null) =>
          (api_cache' = api_cache /\ pendingWrites' = pendingWrites)
     /\ \A r \in api_cache' \cup pendingWrites' : r.data # Null
     /\ (lastOp.op = "withCache" /\ lastOp.upstream /\ lastOp.fetched = Null
           /\ lastOp'.op = "withCache") => lastOp'.upstream
     /\ (lastOp.op = "hudFetch" /\ lastOp.upstream /\ lastOp.fetched = Null
           /\ lastOp'.op = "hudFetch" /\ lastOp'.found) => lastOp'.upstream]_vars

\* a fetch through withCache came back null while the store held the expired
\* row of the key
C28_Witness ==
  /\ lastOp.op = "withCache"
  /\ lastOp.upstream
  /\ lastOp.fetched = Null
  /\ \E r \in api_cache : r.source = lastOp.source /\ r.expires_at <= dbNow

\* C29: the cache holds only payloads computed from a successful upstream
\* response: a fetch whose upstream call fails (a non-2xx status, no answer,
\* a body that cannot be parsed) writes nothing to the cache.
C29_FailureWritesNoCache ==
  (lastFetch.op = "fetch" /\ lastFetch.resp \in {"non2xx", "timeout", "unparseable"}) =>
     ~lastFetch.cacheWrite

====
